---- MODULE Spec2Model ----
(***************************************************************************)
(* Hotel management web client (Next.js) and the REST backend it talks to. *)
(*                                                                         *)
(* The repository's frontend is translated from its source.  The backend   *)
(* request handlers (overlap check, validation, charge re-derivation) are  *)
(* not part of the source tree; they are modelled from the specification   *)
(* and marked so in MODEL_MAP.json.                                        *)
(*                                                                         *)
(* Dates are ISO strings YYYY-MM-DD in the code and are compared as        *)
(* strings; within one month that order is the order of the day number,    *)
(* so a date is modelled as its day number (10 = 2024-01-10).              *)
(***************************************************************************)
EXTENDS Integers, Sequences, FiniteSets, TLC

\* ---------------------------------------------------------------- bounds

\* Number of booking ids the backend hands out in one run.
MaxBookings == 2

\* Longest booking list a page receives.
MaxFetched == 2

\* Number of service items added to the booking in one run.
MaxServices == 2

\* Number of collect-payment requests served in one run.
MaxPayments == 2

\* The scenario's dates 2024-01-10 .. 2024-01-13.
Days == 10..13

Rooms == {101, 102}

\* Dates offered to the racing requests.
RaceDays == 10..12

BookingIds == 1..MaxBookings

NoBooking == [status |-> "None"]

NoRequest == [kind |-> "none"]

\* ------------------------------------------------------------- variables

VARIABLES
  bookings,    \* backend: booking id -> row, or NoBooking
  nextId,      \* backend: next booking id
  checkedAt,   \* ghost: booking id -> last id handed out when its overlap check ran
  inflight,    \* client -> create request whose response is outstanding
  page,        \* client -> route shown
  error,       \* client -> error banner of the booking form (null = "")
  loading,     \* client -> loading / saving flag of the booking form
  pageBookings,\* the `bookings` list a page holds after fetching /bookings/
  today,       \* the current date
  reportData,  \* reports page: reportData.occupancy
  stats,       \* dashboard: stats
  cell,        \* bookings page: the calendar cell rendered last
  acct,        \* backend: the money fields and service items of one booking
  nextServiceId,   \* backend: next service item id
  payments,        \* number of collect-payment requests served
  selectedCheckout,\* dashboard: the checkout row the modal was opened for
  paymentAmount,   \* dashboard: the modal's amount input, 0 for '' (NaN)
  alertMsg,        \* the last alert() shown
  formPage,        \* booking form shown: "none", "new" or "edit"
  formData,        \* the form's inputs
  formBooking,     \* edit form: the booking fetched on mount
  summary,          \* the Booking Summary panel as rendered
  bkStatus,        \* backend: status of one booking, "None" once deleted
  shown,           \* client -> booking.status as the client's page holds it
  sent,             \* the last status request sent, and whether it was accepted
  evt,             \* backend: one event booking, status "None" once deleted
  event,           \* event detail page: the `event` state, NoEvent when closed
  editingField,    \* event detail page: field being edited in place ("" = null)
  editValue,       \* event detail page: the in-place editor's text
  evAlert,          \* event detail page: alert() raised by the last handler
  authToken,       \* lib/api.ts: the in-memory token ("" = null)
  hotel_token,     \* localStorage entry 'hotel_token' ("" = absent)
  ctxToken,        \* AuthContext: the `token` state
  loginInflight,   \* the POST /auth/login awaiting its response
  authLast,        \* the auth call that completed last
  user,             \* AuthContext: the `user` state ("" = null)
  server,          \* backend: the records the report endpoints summarise
  datePreset,      \* reports page: selected preset
  bookingType,     \* reports page: selected booking-type filter
  dateFrom,        \* reports page: window start
  dateTo,          \* reports page: window end
  reqs,            \* reports page: fetchReportData calls awaiting their responses
  shownFor,        \* ghost: window and filter reportData was computed for
  firstReport,     \* ghost: the first report rendered
  firstFor,        \* ghost: window and filter of the first report
  refetched,        \* ghost: the first report's window and filter were fetched again
  stored,          \* backend: status of each of the two bookings
  listRows,        \* bookings page: status shown in each row
  actionLoading,   \* bookings page: id of the row marked busy, 0 for null
  listCalls,       \* bookings page: requests in flight per booking and kind
  todayCheckins,   \* dashboard: bookings listed under today's check-ins
  checkInLoading,  \* dashboard: id of the row marked busy, 0 for null
  dashCalls,        \* dashboard: requests in flight per booking and kind
  roomStatus,      \* backend: status of each room
  roomForm,        \* which booking form is open: "new", "edit" or "none"
  formRooms,       \* booking form: rooms offered by the Room select
  room_id,         \* booking form: formData.room_id, 0 for ''
  sentRoom,         \* room_id of the last request a form sent, 0 for none
  newItem,         \* add-item dialog: the name, quantity and price typed
  itemSent,        \* parameters of the last add-item request, or NoItemRequest
  itemAlert,        \* add-item dialog: text of the last alert, "" for none
  fixedServices,   \* new-event form: the `services` state (fixed service rows)
  customServices,  \* new-event form: the custom service rows
  eventRequest,     \* the submitted request with the totals shown at that moment
  clock,           \* the browser's local date, hour and UTC offset (hours)
  ledger,          \* backend: days on which revenue and expenses are recorded
  monthly,          \* dashboard: monthly figures and the windows they were asked for
  advanceSent,      \* dashboard: the last update-advance request sent, or NoPut
  flag,            \* per page: the busy flag, "idle" or "busy"
  runs,            \* per page: handler runs awaiting their request / their refetch
  lastOutcome,      \* ghost: page and outcome of the last request that settled
  currentDate,     \* bookings calendar: first date of the window, [month, day]
  starts,          \* ghost: the window starts before the last two navigations
  directions       \* ghost: the directions of the last two navigations

ledgerVars == <<bookings, nextId, checkedAt, inflight, page, error, loading>>

viewVars == <<pageBookings, today, reportData, stats, cell>>

moneyVars == <<acct, nextServiceId, payments, selectedCheckout, paymentAmount, alertMsg>>

vars == <<bookings, nextId, checkedAt, inflight, page, error, loading,
          pageBookings, today, reportData, stats, cell,
          acct, nextServiceId, payments, selectedCheckout, paymentAmount, alertMsg,
          formPage, formData, formBooking, summary,
          bkStatus, shown, sent,
          evt, event, editingField, editValue, evAlert,
          authToken, hotel_token, ctxToken, loginInflight, authLast, user,
          server, datePreset, bookingType, dateFrom, dateTo, reqs, shownFor, firstReport, firstFor, refetched,
          stored, listRows, actionLoading, listCalls, todayCheckins, checkInLoading, dashCalls,
          roomStatus, roomForm, formRooms, room_id, sentRoom,
          newItem, itemSent, itemAlert,
          fixedServices, customServices, eventRequest,
          clock, ledger, monthly,
          advanceSent,
          flag, runs, lastOutcome,
          currentDate, starts, directions>>

navVars == <<currentDate, starts, directions>>

handlerVars == <<flag, runs, lastOutcome>>

advanceVars == <<advanceSent>>

monthVars == <<clock, ledger, monthly>>

eventFormVars == <<fixedServices, customServices, eventRequest>>

itemVars == <<newItem, itemSent, itemAlert>>

roomVars == <<roomStatus, roomForm, formRooms, room_id, sentRoom>>

busyVars == <<stored, listRows, actionLoading, listCalls, todayCheckins, checkInLoading, dashCalls>>

reportVars == <<server, datePreset, bookingType, dateFrom, dateTo, reqs, shownFor, firstReport, firstFor, refetched>>

authVars == <<authToken, hotel_token, ctxToken, loginInflight, authLast, user>>

eventVars == <<evt, event, editingField, editValue, evAlert>>

statusVars == <<bkStatus, shown, sent>>

formVars == <<formPage, formData, formBooking, summary>>

Clients == {1, 2}

\* ------------------------------------------------- backend (from the spec)

Overlaps_StartOnly(a1, b1, a2, b2) == a2 <= a1 /\ a1 < b2

Overlaps_Closed(a1, b1, a2, b2) == a1 <= b2 /\ a2 <= b1

\* Half-open interval overlap rule of the availability check.
Overlaps(a1, b1, a2, b2) == a1 < b2 /\ a2 < b1

\* Rows taking part in the overlap set: existing and not Cancelled.
IsActive(b) == b.status \notin {"None", "Cancelled"}

\* Availability check for room r and [ci, co), ignoring booking id self
\* (0 on create), against the rows rs.
HasConflict(rs, self, r, ci, co) ==
  \E i \in BookingIds :
    /\ i # self
    /\ IsActive(rs[i])
    /\ rs[i].room = r
    /\ Overlaps(ci, co, rs[i].ci, rs[i].co)

ValidDates_AllowEqual(ci, co) == co >= ci

\* Field validation: check_out strictly greater than check_in.
ValidDates(ci, co) == co > ci

\* Response of the create / update handler.
BookingResponse(rs, self, r, ci, co) ==
  IF ~ValidDates(ci, co) THEN "validation"
  ELSE IF HasConflict(rs, self, r, ci, co) THEN "conflict"
  ELSE "ok"

\* ----------------------------------------------------------------- client

NewBookingRoute_AlwaysPush(resp) == "/bookings"

\* bookings/new: route after the response (router.push only on response.ok).
NewBookingRoute(resp) == IF resp = "ok" THEN "/bookings" ELSE "/bookings/new"

\* bookings/[id]/edit: route after the response.
EditBookingRoute(resp) == IF resp = "ok" THEN "/bookings/[id]" ELSE "/bookings/[id]/edit"

\* setError(err.message) in the catch block, setError(null) before the request.
ErrorBanner(resp) == IF resp = "ok" THEN "" ELSE resp

\* The browser's constraint validation of the form: both dates required and
\* check_out_date has min = check_in_date, which admits equal dates.
FormConstraintsOk(ci, co) == co >= ci

\* reportData and stats before the first fetch has returned (null).
NoReport == [profit |-> "null"]

NoStats == [occupied_rooms |-> "null"]

\* A response that was not OK: `res.ok ? await res.json() : null`.
Null == [ok |-> FALSE]

NoCell == [room |-> 0]

\* `undefined`, the result of Array.prototype.find without a match.
Undefined == [status |-> "undefined"]

ViewIdle ==
  /\ pageBookings = <<>>
  /\ today = 10
  /\ reportData = NoReport
  /\ stats = NoStats
  /\ cell = NoCell

NoAcct ==
  [status |-> "None", rate |-> 0, nights |-> 0, services |-> <<>>,
   advance_payment |-> 0, collected |-> 0, room_charges |-> 0,
   additional_charges |-> 0, total_amount |-> 0, balance_due |-> 0,
   payment_status |-> "Unpaid"]

NoCheckout == [booking_id |-> 0, balance_due |-> 0]

\* No booking created yet, no modal open.
MoneyStart ==
  /\ acct = NoAcct
  /\ nextServiceId = 1
  /\ payments = 0
  /\ selectedCheckout = NoCheckout
  /\ paymentAmount = 0
  /\ alertMsg = ""

EmptyForm ==
  [check_in_date |-> 0, check_out_date |-> 0, room_rate_per_night |-> 0,
   advance_payment |-> 0]

NoSummary == [nights |-> 0, total_amount |-> 0, balance_due |-> 0]

\* No booking form is open.
FormStart ==
  /\ formPage = "none"
  /\ formData = EmptyForm
  /\ formBooking = NoAcct
  /\ summary = NoSummary

NoSent == [by |-> 0, kind |-> "none", ok |-> TRUE, from |-> "None"]

\* One booking exists, Confirmed, and both clients have fetched it.
StatusStart ==
  /\ bkStatus = "Confirmed"
  /\ shown = [c \in {1, 2} |-> "Confirmed"]
  /\ sent = NoSent

NoEvent == [status |-> "None", booking_name |-> "", notes |-> ""]

\* One Confirmed event is stored and the detail page is not open.
EventStart ==
  /\ evt = [status |-> "Confirmed", booking_name |-> "Wedding", notes |-> ""]
  /\ event = NoEvent
  /\ editingField = ""
  /\ editValue = ""
  /\ evAlert = ""

NoLogin == [sent |-> FALSE, ok |-> FALSE, access_token |-> ""]

\* Nobody is logged in: no token in memory, in localStorage or in the context.
AuthStart ==
  /\ authToken = ""
  /\ hotel_token = ""
  /\ ctxToken = ""
  /\ loginInflight = NoLogin
  /\ authLast = ""
  /\ user = ""

NoParams == [type |-> "none", from |-> 0, to |-> 0]

NoSource == [bookings |-> <<>>, expenseDays |-> {}, eventDays |-> {}]

\* The reports page is not open.
ReportStart ==
  /\ server = NoSource
  /\ datePreset = "month"
  /\ bookingType = "both"
  /\ dateFrom = 0
  /\ dateTo = 0
  /\ reqs = {}
  /\ shownFor = NoParams
  /\ firstReport = NoReport
  /\ firstFor = NoParams
  /\ refetched = FALSE

BusyIds == {1, 2}

NoCalls == [c \in BusyIds \X {"check-in", "check-out"} |-> 0]

\* Two Confirmed bookings due today; the bookings page and the dashboard
\* have loaded them and no request is in flight.
BusyStart ==
  /\ stored = [b \in BusyIds |-> "Confirmed"]
  /\ listRows = [b \in BusyIds |-> "Confirmed"]
  /\ actionLoading = 0
  /\ listCalls = NoCalls
  /\ todayCheckins = BusyIds
  /\ checkInLoading = 0
  /\ dashCalls = NoCalls

RoomIds == {101, 102, 103}

RoomStatuses == {"Active", "Under Maintenance", "Inactive"}

\* No booking form is open.
RoomStart ==
  /\ roomStatus = [r \in RoomIds |-> "Active"]
  /\ roomForm = "none"
  /\ formRooms = {}
  /\ room_id = 0
  /\ sentRoom = 0

EmptyItem == [name |-> "", quantity |-> 1, price |-> 0]

NoItemRequest == [service_name |-> "", quantity |-> 0, unit_price |-> 0]

\* The add-item dialog is closed.
ItemStart ==
  /\ newItem = EmptyItem
  /\ itemSent = NoItemRequest
  /\ itemAlert = ""

\* The services of the form that are always present (two of the seven).
FIXED_SERVICES == <<"Marriage Garden", "Rooms">>

NoEventRequest == [sent |-> FALSE]

\* useState initial values of the new-event form; nothing submitted.
EventFormStart ==
  /\ fixedServices = [i \in 1..Len(FIXED_SERVICES) |->
                        [service_type |-> FIXED_SERVICES[i],
                         customer_price |-> 0, vendor_cost |-> 0]]
  /\ customServices = <<>>
  /\ eventRequest = NoEventRequest

NoMonthly == [loaded |-> FALSE]

\* The dashboard has not loaded its monthly figures.
MonthStart ==
  /\ clock = [day |-> 31, hour |-> 12, offset |-> 0]
  /\ ledger = [revenueDays |-> {}, expenseDays |-> {}]
  /\ monthly = NoMonthly

NoPut == [sent |-> FALSE]

\* No update-advance request has been sent.
AdvanceStart == advanceSent = NoPut

\* The pages whose mutation handlers carry a busy flag: booking detail
\* (actionLoading), event detail (saving), bookings list (actionLoading) and
\* dashboard (checkInLoading, checkOutLoading, cancelLoading, addItemLoading,
\* taken together).
Pages == {"detail", "event", "list", "dashboard"}

NoRuns == [request |-> 0, refetch |-> 0]

NoOutcome == [page |-> "none", outcome |-> "none"]

\* No handler is running and every busy flag is idle.
HandlerStart ==
  /\ flag = [p \in Pages |-> "idle"]
  /\ runs = [p \in Pages |-> NoRuns]
  /\ lastOutcome = NoOutcome

\* The bookings calendar is not open.
NavStart ==
  /\ currentDate = [month |-> 3, day |-> 1]
  /\ starts = <<>>
  /\ directions = <<>>

LedgerStart ==
  /\ bookings = [i \in BookingIds |-> NoBooking]
  /\ nextId = 1
  /\ checkedAt = [i \in BookingIds |-> 0]
  /\ inflight = [c \in Clients |-> NoRequest]
  /\ page = [c \in Clients |-> "/bookings"]
  /\ error = [c \in Clients |-> ""]
  /\ loading = [c \in Clients |-> FALSE]

\* New booking form submitted and processed to completion by the backend.
NewBooking_handleSubmit(c) ==
  \E r \in Rooms, ci \in Days, co \in Days :
    LET resp == BookingResponse(bookings, 0, r, ci, co) IN
    /\ inflight[c] = NoRequest
    /\ FormConstraintsOk(ci, co)
    /\ resp = "ok" => nextId <= MaxBookings
    /\ IF resp = "ok"
         THEN /\ bookings' = [bookings EXCEPT ![nextId] =
                    [room |-> r, ci |-> ci, co |-> co, status |-> "Confirmed"]]
              /\ checkedAt' = [checkedAt EXCEPT ![nextId] = nextId - 1]
              /\ nextId' = nextId + 1
         ELSE UNCHANGED <<bookings, nextId, checkedAt>>
    /\ page' = [page EXCEPT ![c] = NewBookingRoute(resp)]
    /\ error' = [error EXCEPT ![c] = ErrorBanner(resp)]
    /\ loading' = [loading EXCEPT ![c] = FALSE]
    /\ UNCHANGED inflight

\* Edit booking form submitted and processed to completion by the backend.
EditBooking_handleSubmit(c) ==
  \E id \in BookingIds, r \in Rooms, ci \in Days, co \in Days :
    LET resp == BookingResponse(bookings, id, r, ci, co) IN
    /\ inflight[c] = NoRequest
    /\ bookings[id] # NoBooking
    /\ FormConstraintsOk(ci, co)
    /\ IF resp = "ok"
         THEN bookings' = [bookings EXCEPT ![id] =
                  [room |-> r, ci |-> ci, co |-> co, status |-> bookings[id].status]]
         ELSE UNCHANGED bookings
    /\ page' = [page EXCEPT ![c] = EditBookingRoute(resp)]
    /\ error' = [error EXCEPT ![c] = ErrorBanner(resp)]
    /\ loading' = [loading EXCEPT ![c] = FALSE]
    /\ UNCHANGED <<nextId, checkedAt, inflight>>

\* Status change of one booking; the page refetches and shows no form.
SetStatus(c, id, from, to) ==
  /\ inflight[c] = NoRequest
  /\ bookings[id].status = from
  /\ bookings' = [bookings EXCEPT ![id].status = to]
  /\ page' = [page EXCEPT ![c] = "/bookings/[id]"]
  /\ error' = [error EXCEPT ![c] = ""]
  /\ UNCHANGED <<nextId, checkedAt, inflight, loading>>

\* Booking detail: Cancel Booking is offered for a Confirmed booking.
handleCancel(c) == \E id \in BookingIds : SetStatus(c, id, "Confirmed", "Cancelled")

LedgerInit == LedgerStart /\ ViewIdle /\ MoneyStart /\ FormStart /\ StatusStart /\ EventStart /\ AuthStart /\ ReportStart /\ BusyStart /\ RoomStart /\ ItemStart /\ EventFormStart /\ MonthStart /\ AdvanceStart /\ HandlerStart /\ NavStart

LedgerNext ==
  /\ \/ NewBooking_handleSubmit(1)
     \/ EditBooking_handleSubmit(1)
     \/ handleCancel(1)
  /\ UNCHANGED <<viewVars, moneyVars, formVars, statusVars, eventVars, authVars, reportVars, busyVars, roomVars, itemVars, eventFormVars, monthVars, advanceVars, handlerVars, navVars>>

Spec == LedgerInit /\ [][LedgerNext]_vars

\* ------------------------------------------------ racing create requests

\* The request leaves the form (setLoading(true), setError(null)) and the
\* backend runs validation and the overlap check against the rows it reads.
NewBooking_send(c) ==
  \E r \in Rooms, ci \in RaceDays, co \in RaceDays :
    /\ inflight[c] = NoRequest
    /\ FormConstraintsOk(ci, co)
    /\ inflight' = [inflight EXCEPT ![c] =
          [kind |-> "create", room |-> r, ci |-> ci, co |-> co,
           resp |-> BookingResponse(bookings, 0, r, ci, co), seen |-> nextId - 1]]
    /\ page' = [page EXCEPT ![c] = "/bookings/new"]
    /\ error' = [error EXCEPT ![c] = ""]
    /\ loading' = [loading EXCEPT ![c] = TRUE]
    /\ UNCHANGED <<bookings, nextId, checkedAt>>

\* The backend commits the insert its check allowed and the response reaches
\* the form (router.push or setError, then setLoading(false)).
NewBooking_respond(c) ==
  LET q == inflight[c] IN
  /\ q # NoRequest
  /\ q.resp = "ok" => nextId <= MaxBookings
  /\ IF q.resp = "ok"
       THEN /\ bookings' = [bookings EXCEPT ![nextId] =
                  [room |-> q.room, ci |-> q.ci, co |-> q.co, status |-> "Confirmed"]]
            /\ checkedAt' = [checkedAt EXCEPT ![nextId] = q.seen]
            /\ nextId' = nextId + 1
       ELSE UNCHANGED <<bookings, nextId, checkedAt>>
  /\ page' = [page EXCEPT ![c] = NewBookingRoute(q.resp)]
  /\ error' = [error EXCEPT ![c] = ErrorBanner(q.resp)]
  /\ loading' = [loading EXCEPT ![c] = FALSE]
  /\ inflight' = [inflight EXCEPT ![c] = NoRequest]

RaceNext ==
  /\ \/ \E c \in Clients : NewBooking_send(c)
     \/ \E c \in Clients : NewBooking_respond(c)
  /\ UNCHANGED <<viewVars, moneyVars, formVars, statusVars, eventVars, authVars, reportVars, busyVars, roomVars, itemVars, eventFormVars, monthVars, advanceVars, handlerVars, navVars>>

SpecRace == LedgerInit /\ [][RaceNext]_vars

\* ------------------------------------------- pages reading the booking list

BookingStatuses == {"Confirmed", "Checked In", "Checked Out", "Cancelled"}

\* Rows the backend may return: any room, check_out after check_in, any status.
BookingRows ==
  {[room |-> r, ci |-> a, co |-> b, status |-> st] :
     r \in Rooms, a \in Days, b \in Days, st \in BookingStatuses}

BookingLists(rows, n) == UNION {[1..k -> rows] : k \in 0..n}

\* Array.prototype.filter(pred).length
CountWhere(list, Pred(_)) == Cardinality({i \in 1..Len(list) : Pred(list[i])})

\* Reports page: currentlyOccupied.
currentlyOccupied(list, day) ==
  LET Occupying(b) == /\ b.status = "Checked In"
                      /\ b.ci <= day
                      /\ b.co >= day
  IN CountWhere(list, Occupying)

\* Dashboard: occupiedRooms.
occupiedRooms(list) ==
  LET CheckedIn(b) == b.status = "Checked In" IN CountWhere(list, CheckedIn)

\* /rooms/summary as the backend may answer it.
RoomSummaries == {[ok |-> TRUE, total_rooms |-> 2, active_rooms |-> a] : a \in {0, 1}}

\* summary?.field || 0
Opt(res, field) == IF res = Null THEN 0 ELSE res[field]

\* A percentage occupied / active * 100, kept as the fraction num / den.
Percent(occupied, active) == [num |-> occupied * 100, den |-> active]

ZeroRate == [num |-> 0, den |-> 1]

ReportRate_Unguarded(occupied, activeRooms) == Percent(occupied, activeRooms)

\* Reports page: activeRooms > 0 ? (currentlyOccupied / activeRooms) * 100 : 0
ReportRate(occupied, activeRooms) ==
  IF activeRooms > 0 THEN Percent(occupied, activeRooms) ELSE ZeroRate

\* Dashboard: roomSummary.active_rooms ? (occupiedRooms / active_rooms) * 100 : 0
DashboardRate(occupied, activeRooms) ==
  IF activeRooms # 0 THEN Percent(occupied, activeRooms) ELSE ZeroRate

\* filteredBookings: bookings whose check-in date lies in the window.
filteredBookings(list, from, to) ==
  SelectSeq(list, LAMBDA b : b.ci >= from /\ b.ci <= to)

CountStatus(list, st) == LET Is(b) == b.status = st IN CountWhere(list, Is)

\* Reports page: totalRevenue by booking-type filter.
TotalRevenue(type, hotelRevenue, eventRevenue) ==
  CASE type = "hotel" -> hotelRevenue
    [] type = "events" -> eventRevenue
    [] OTHER -> hotelRevenue + eventRevenue

TotalExpenses_OperatingOnly(type, operating, eventVendorCost) ==
  CASE type = "events" -> eventVendorCost
    [] OTHER -> operating

\* Reports page: totalExpenses by booking-type filter.
TotalExpenses(type, operating, eventVendorCost) ==
  CASE type = "hotel" -> operating
    [] type = "events" -> eventVendorCost
    [] OTHER -> operating + eventVendorCost

\* Reports page: the object fetchReportData hands to setReportData, from
\* the five responses, the filter, the window and the current date.
ReportOf(roomsSummary, list, expensesSummary, revenueSummary, eventsSummary, type, from, to, day) ==
  LET hotelRevenue == Opt(revenueSummary, "total_revenue")
      hotelPaid == Opt(revenueSummary, "revenue_collected")
      hotelPending == Opt(revenueSummary, "revenue_pending")
      eventRevenue == Opt(eventsSummary, "total_revenue")
      eventCollected == Opt(eventsSummary, "total_collected")
      eventPending == Opt(eventsSummary, "revenue_pending")
      eventVendorCost == Opt(eventsSummary, "total_expenses")
      operating == Opt(expensesSummary, "total_amount")
      totalRevenue == TotalRevenue(type, hotelRevenue, eventRevenue)
      paidRevenue == CASE type = "hotel" -> hotelPaid
                       [] type = "events" -> eventCollected
                       [] OTHER -> hotelPaid + eventCollected
      pendingRevenue == CASE type = "hotel" -> hotelPending
                          [] type = "events" -> eventPending
                          [] OTHER -> hotelPending + eventPending
      totalExpenses == TotalExpenses(type, operating, eventVendorCost)
      filtered == filteredBookings(list, from, to)
      occupied == currentlyOccupied(list, day)
      activeRooms == Opt(roomsSummary, "active_rooms")
  IN [revenue |-> [total |-> totalRevenue, paid |-> paidRevenue,
                   pending |-> pendingRevenue],
      occupancy |-> [rate |-> ReportRate(occupied, activeRooms),
                     total_rooms |-> Opt(roomsSummary, "total_rooms"),
                     active_rooms |-> activeRooms,
                     occupied_rooms |-> occupied,
                     available_rooms |-> activeRooms - occupied],
      bookings |-> [total |-> Len(filtered),
                    confirmed |-> CountStatus(filtered, "Confirmed"),
                    checked_in |-> CountStatus(filtered, "Checked In"),
                    checked_out |-> CountStatus(filtered, "Checked Out"),
                    cancelled |-> CountStatus(filtered, "Cancelled")],
      expenses |-> [total |-> totalExpenses],
      events |-> [revenue |-> eventRevenue, vendor_cost |-> eventVendorCost,
                  profit_margin |-> Opt(eventsSummary, "total_profit")],
      profit |-> totalRevenue - totalExpenses]

\* Reports page: fetchReportData with the bookings and the room summary
\* answered (or the room summary not OK) and the three money summaries not
\* OK, for the window holding every day and the filter 'both'.
fetchReportData ==
  \E roomsSummary \in RoomSummaries \cup {Null} :
    /\ reportData' = ReportOf(roomsSummary, pageBookings, Null, Null, Null,
                              "both", 10, 13, today)
    /\ UNCHANGED <<pageBookings, today, stats, cell>>

\* Dashboard: the room and occupancy figures of loadDashboardStats; when
\* a request fails api.get throws and the catch block stores zeros.
loadDashboardStats ==
  \E roomSummary \in RoomSummaries \cup {Null} :
    /\ stats' =
         IF roomSummary = Null
           THEN [total_rooms |-> 0, active_rooms |-> 0, occupied_rooms |-> 0,
                 occupancy_rate |-> ZeroRate]
           ELSE [total_rooms |-> roomSummary.total_rooms,
                 active_rooms |-> roomSummary.active_rooms,
                 occupied_rooms |-> occupiedRooms(pageBookings),
                 occupancy_rate |->
                   DashboardRate(occupiedRooms(pageBookings), roomSummary.active_rooms)]
    /\ UNCHANGED <<pageBookings, today, reportData, cell>>

OccupancyInit ==
  /\ LedgerStart
  /\ pageBookings \in BookingLists({b \in BookingRows : b.room = 101 /\ b.ci < b.co}, MaxFetched)
  /\ today \in Days
  /\ reportData = NoReport
  /\ stats = NoStats
  /\ cell = NoCell
  /\ MoneyStart
  /\ FormStart /\ StatusStart /\ EventStart /\ AuthStart /\ ReportStart /\ BusyStart /\ RoomStart /\ ItemStart /\ EventFormStart /\ MonthStart /\ AdvanceStart /\ HandlerStart /\ NavStart

OccupancyNext ==
  /\ \/ fetchReportData
     \/ loadDashboardStats
  /\ UNCHANGED <<ledgerVars, moneyVars, formVars, statusVars, eventVars, authVars, reportVars, busyVars, roomVars, itemVars, eventFormVars, monthVars, advanceVars, handlerVars, navVars>>

SpecOccupancy == OccupancyInit /\ [][OccupancyNext]_vars

CoversMatch_Closed(b, roomId, dateString) ==
  b.room = roomId /\ dateString >= b.ci /\ dateString <= b.co

\* Bookings page: the predicate handed to bookings.find.
CoversMatch(b, roomId, dateString) ==
  b.room = roomId /\ dateString >= b.ci /\ dateString < b.co

\* Array.prototype.find from index k on: the first match or undefined.
RECURSIVE FindFrom(_, _, _, _)
FindFrom(list, k, roomId, dateString) ==
  IF k > Len(list) THEN Undefined
  ELSE IF CoversMatch(list[k], roomId, dateString) THEN list[k]
  ELSE FindFrom(list, k + 1, roomId, dateString)

\* Bookings page: getBookingForRoomAndDate.
getBookingForRoomAndDate(roomId, dateString) ==
  FindFrom(pageBookings, 1, roomId, dateString)

\* One cell of the calendar grid is rendered.
RenderCell ==
  \E r \in Rooms, d \in Days :
    /\ cell' = [room |-> r, date |-> d, booking |-> getBookingForRoomAndDate(r, d)]
    /\ UNCHANGED <<pageBookings, today, reportData, stats>>

CalendarInit ==
  /\ LedgerStart
  /\ pageBookings \in BookingLists(
        {b \in BookingRows : b.ci < b.co /\ b.status \in {"Confirmed", "Cancelled"}},
        MaxFetched)
  /\ today = 10
  /\ reportData = NoReport
  /\ stats = NoStats
  /\ cell = NoCell
  /\ MoneyStart
  /\ FormStart /\ StatusStart /\ EventStart /\ AuthStart /\ ReportStart /\ BusyStart /\ RoomStart /\ ItemStart /\ EventFormStart /\ MonthStart /\ AdvanceStart /\ HandlerStart /\ NavStart

CalendarNext == RenderCell /\ UNCHANGED <<ledgerVars, moneyVars, formVars, statusVars, eventVars, authVars, reportVars, busyVars, roomVars, itemVars, eventFormVars, monthVars, advanceVars, handlerVars, navVars>>

SpecCalendar == CalendarInit /\ [][CalendarNext]_vars

\* --------------------------------------------- charges, payments, services

Rates == {2000}

NightCounts == {1, 2}

\* Amounts typed into the advance and payment inputs.
AdvanceInputs == {0, 1000, 5000}

PayInputs == {0, 100, 5000}

ItemQuantities == {1, 2}

ItemPrices == {0, 50}

RECURSIVE SumTotalPrice(_)
SumTotalPrice(items) ==
  IF items = <<>> THEN 0 ELSE Head(items).total_price + SumTotalPrice(Tail(items))

PaymentStatus_PaidAtZeroOnly(advance, balance) ==
  IF balance = 0 THEN "Paid"
  ELSE IF advance > 0 THEN "Partially Paid"
  ELSE "Unpaid"

\* Backend: payment_status as a function of the advance and the balance.
PaymentStatus(advance, balance) ==
  IF balance <= 0 THEN "Paid"
  ELSE IF advance > 0 /\ balance > 0 THEN "Partially Paid"
  ELSE "Unpaid"

Rederive_KeepCharges(a) ==
  [a EXCEPT !.room_charges = a.rate * a.nights,
            !.balance_due = a.total_amount - a.advance_payment - a.collected]

\* Backend: the charge and balance computation re-run from the stored
\* primitives after every mutation.
Rederive(a) ==
  LET rc == a.rate * a.nights
      ac == SumTotalPrice(a.services)
  IN [a EXCEPT !.room_charges = rc,
               !.additional_charges = ac,
               !.total_amount = rc + ac,
               !.balance_due = rc + ac - a.advance_payment - a.collected,
               !.payment_status =
                  PaymentStatus(a.advance_payment,
                                rc + ac - a.advance_payment - a.collected)]

\* Backend: POST /bookings/
BackendCreate(rate, nights, advance) ==
  Rederive([status |-> "Confirmed", rate |-> rate, nights |-> nights,
            services |-> <<>>, advance_payment |-> advance, collected |-> 0,
            room_charges |-> 0, additional_charges |-> 0, total_amount |-> 0,
            balance_due |-> 0, payment_status |-> "Unpaid"])

\* Backend: PUT /bookings/{id}
BackendUpdate(a, rate, nights, advance) ==
  Rederive([a EXCEPT !.rate = rate, !.nights = nights, !.advance_payment = advance])

\* Backend: POST /bookings/{id}/collect-payment?amount=
BackendCollect(a, amount) == Rederive([a EXCEPT !.collected = @ + amount])

\* Backend: POST /bookings/{id}/services?service_name=&quantity=&unit_price=
BackendAddService(a, id, quantity, unit_price) ==
  Rederive([a EXCEPT !.services = Append(@,
     [id |-> id, quantity |-> quantity, unit_price |-> unit_price,
      total_price |-> quantity * unit_price])])

\* Backend: DELETE /bookings/{id}/services/{serviceId}
BackendDeleteService(a, id) ==
  Rederive([a EXCEPT !.services = SelectSeq(@, LAMBDA it : it.id # id)])

\* New booking form: the booking is created with the form's rate, dates and
\* advance (advance_payment input: min 0, no upper limit).
NewBooking_create ==
  \E rate \in Rates, nights \in NightCounts, advance \in AdvanceInputs :
    /\ acct = NoAcct
    /\ acct' = BackendCreate(rate, nights, advance)
    /\ alertMsg' = ""
    /\ UNCHANGED <<nextServiceId, payments, selectedCheckout, paymentAmount>>

\* Edit booking form: rate, dates and advance are saved.
EditBooking_save ==
  \E rate \in Rates, nights \in NightCounts, advance \in AdvanceInputs :
    /\ acct # NoAcct
    /\ selectedCheckout = NoCheckout
    /\ acct' = BackendUpdate(acct, rate, nights, advance)
    /\ alertMsg' = ""
    /\ UNCHANGED <<nextServiceId, payments, selectedCheckout, paymentAmount>>

\* Booking detail: Check In, offered while Confirmed.
Detail_handleCheckIn ==
  /\ acct.status = "Confirmed"
  /\ acct' = [acct EXCEPT !.status = "Checked In"]
  /\ alertMsg' = ""
  /\ UNCHANGED <<nextServiceId, payments, selectedCheckout, paymentAmount>>

\* Booking detail: Collect Payment, offered while Checked In with a balance;
\* the amount is whatever the modal's input holds.
Detail_handleCollectPayment ==
  \E amount \in PayInputs \cup {acct.balance_due} :
    /\ acct.status = "Checked In"
    /\ acct.balance_due > 0
    /\ selectedCheckout = NoCheckout
    /\ IF amount <= 0
         THEN /\ alertMsg' = "Please enter a valid amount"
              /\ UNCHANGED <<acct, payments>>
         ELSE /\ payments < MaxPayments
              /\ acct' = BackendCollect(acct, amount)
              /\ payments' = payments + 1
              /\ alertMsg' = ""
    /\ UNCHANGED <<nextServiceId, selectedCheckout, paymentAmount>>

\* Booking detail: Add Item, offered while Confirmed or Checked In.
Detail_handleAddItem ==
  \E quantity \in ItemQuantities, price \in ItemPrices :
    /\ acct.status \in {"Confirmed", "Checked In"}
    /\ selectedCheckout = NoCheckout
    /\ nextServiceId <= MaxServices
    /\ acct' = BackendAddService(acct, nextServiceId, quantity, price)
    /\ nextServiceId' = nextServiceId + 1
    /\ alertMsg' = ""
    /\ UNCHANGED <<payments, selectedCheckout, paymentAmount>>

\* Booking detail: remove one listed item.
Detail_handleDeleteItem ==
  \E k \in 1..Len(acct.services) :
    /\ acct.status \in {"Confirmed", "Checked In"}
    /\ selectedCheckout = NoCheckout
    /\ acct' = BackendDeleteService(acct, acct.services[k].id)
    /\ alertMsg' = ""
    /\ UNCHANGED <<nextServiceId, payments, selectedCheckout, paymentAmount>>

\* Dashboard: the checkout modal is opened for the row of a Checked In
\* booking; the amount input is prefilled with the row's balance.
openCheckoutModal ==
  /\ acct.status = "Checked In"
  /\ selectedCheckout = NoCheckout
  /\ selectedCheckout' = [booking_id |-> 1, balance_due |-> acct.balance_due]
  /\ paymentAmount' = IF acct.balance_due > 0 THEN acct.balance_due ELSE 0
  /\ UNCHANGED <<acct, nextServiceId, payments, alertMsg>>

\* Dashboard: the modal's amount input is edited.
setPaymentAmount ==
  \E v \in PayInputs :
    /\ selectedCheckout # NoCheckout
    /\ selectedCheckout.balance_due > 0
    /\ paymentAmount' = v
    /\ UNCHANGED <<acct, nextServiceId, payments, selectedCheckout, alertMsg>>

\* Dashboard: Confirm Checkout.  The payment request and the check-out
\* request are sent one after the other; either may fail.
handleCollectAndCheckout ==
  \E fail \in {"none", "collect-payment", "check-out"} :
    LET collects == selectedCheckout.balance_due > 0 /\ paymentAmount > 0
        paid == IF collects THEN BackendCollect(acct, paymentAmount) ELSE acct
    IN
    /\ selectedCheckout # NoCheckout
    /\ fail = "collect-payment" => collects
    /\ (collects /\ fail # "collect-payment") => payments < MaxPayments
    /\ IF fail = "collect-payment"
         THEN /\ UNCHANGED <<acct, payments, selectedCheckout, paymentAmount>>
              /\ alertMsg' = "Failed to check out guest"
         ELSE /\ payments' = IF collects THEN payments + 1 ELSE payments
              /\ IF fail = "check-out"
                   THEN /\ acct' = paid
                        /\ UNCHANGED <<selectedCheckout, paymentAmount>>
                        /\ alertMsg' = "Failed to check out guest"
                   ELSE /\ acct' = [paid EXCEPT !.status = "Checked Out"]
                        /\ selectedCheckout' = NoCheckout
                        /\ paymentAmount' = 0
                        /\ alertMsg' = ""
    /\ UNCHANGED nextServiceId

\* The methods of the `api` object.
ApiMethods == {"get", "post"}

\* Dashboard: Update Advance.  api.put(...) is called inside the try block;
\* api has no put method, so the call throws before any request is made and
\* the catch block alerts.
handleUpdateAdvance ==
  \E amount \in AdvanceInputs, ok \in BOOLEAN :
    /\ acct.status = "Confirmed"
    /\ selectedCheckout = NoCheckout
    /\ IF "put" \in ApiMethods
         THEN /\ advanceSent' = [sent |-> TRUE, advance_payment |-> amount]
              /\ acct' = IF ok THEN BackendUpdate(acct, acct.rate, acct.nights, amount) ELSE acct
              /\ alertMsg' = IF ok THEN "" ELSE "Failed to update advance payment"
         ELSE /\ alertMsg' = "Failed to update advance payment"
              /\ UNCHANGED <<acct, advanceSent>>
    /\ UNCHANGED <<nextServiceId, payments, selectedCheckout, paymentAmount>>

MoneyInit == LedgerStart /\ ViewIdle /\ MoneyStart /\ FormStart /\ StatusStart /\ EventStart /\ AuthStart /\ ReportStart /\ BusyStart /\ RoomStart /\ ItemStart /\ EventFormStart /\ MonthStart /\ AdvanceStart /\ HandlerStart /\ NavStart

MoneyNext ==
  /\ \/ NewBooking_create /\ UNCHANGED advanceVars
     \/ EditBooking_save /\ UNCHANGED advanceVars
     \/ Detail_handleCheckIn /\ UNCHANGED advanceVars
     \/ Detail_handleCollectPayment /\ UNCHANGED advanceVars
     \/ Detail_handleAddItem /\ UNCHANGED advanceVars
     \/ Detail_handleDeleteItem /\ UNCHANGED advanceVars
     \/ openCheckoutModal /\ UNCHANGED advanceVars
     \/ setPaymentAmount /\ UNCHANGED advanceVars
     \/ handleCollectAndCheckout /\ UNCHANGED advanceVars
     \/ handleUpdateAdvance
  /\ UNCHANGED <<ledgerVars, viewVars, formVars, statusVars, eventVars, authVars, reportVars, busyVars, roomVars, itemVars, eventFormVars, monthVars, handlerVars, navVars>>

SpecMoney == MoneyInit /\ [][MoneyNext]_vars

\* ------------------------------------------------- booking forms' summary

\* Date inputs: 0 is the empty string, 10 is 2024-01-10.
FormDates == {0, 10, 11, 12}

FormRates == {0, 2000}

FormAdvances == {0, 1000}

MS_PER_DAY == 1000 * 60 * 60 * 24

\* new Date('YYYY-MM-DD').getTime(): UTC midnight of the day.
getTime(date) == date * MS_PER_DAY

\* Math.ceil(a / b) for b > 0
Ceil(a, b) == IF a % b = 0 THEN a \div b ELSE (a \div b) + 1

calculateTotalNights(f) ==
  IF f.check_in_date # 0 /\ f.check_out_date # 0
    THEN LET diffTime == getTime(f.check_out_date) - getTime(f.check_in_date)
             diffDays == Ceil(diffTime, MS_PER_DAY)
         IN IF diffDays > 0 THEN diffDays ELSE 0
    ELSE 0

calculateTotalAmount(f) == calculateTotalNights(f) * f.room_rate_per_night

\* The Booking Summary panel; both forms render the same three figures.
BookingSummary(f) ==
  [nights |-> calculateTotalNights(f),
   total_amount |-> calculateTotalAmount(f),
   balance_due |-> calculateTotalAmount(f) - f.advance_payment]

\* Bookings the edit form can be opened on: stored by the backend with
\* their derived charges, without service items or with one (2 at 50).
StoredBookings ==
  LET plain == { BackendCreate(2000, n, a) : n \in {1, 2}, a \in FormAdvances }
  IN plain \cup { BackendAddService(b, 1, 2, 50) : b \in plain }

\* /bookings/new is opened: check-in is the date of the link followed, if
\* any, the check-out date is empty and the amounts are zero.
NewBooking_mount ==
  \E date \in FormDates :
    /\ formPage = "none"
    /\ formPage' = "new"
    /\ formData' = [EmptyForm EXCEPT !.check_in_date = date]
    /\ formBooking' = NoAcct
    /\ summary' = BookingSummary(formData')

\* /bookings/{id}/edit is opened: the booking is fetched and its fields
\* populate the form.
EditBooking_fetchBooking ==
  \E data \in StoredBookings, ci \in {10, 11} :
    /\ formPage = "none"
    /\ formPage' = "edit"
    /\ formBooking' = data
    /\ formData' = [check_in_date |-> ci, check_out_date |-> ci + data.nights,
                    room_rate_per_night |-> data.rate,
                    advance_payment |-> data.advance_payment]
    /\ summary' = BookingSummary(formData')

\* An input of either form is changed and the summary is rendered again.
handleInputChange ==
  \E name \in {"check_in_date", "check_out_date", "room_rate_per_night",
               "advance_payment"} :
    \E value \in (IF name \in {"check_in_date", "check_out_date"} THEN FormDates
                  ELSE IF name = "room_rate_per_night" THEN FormRates
                  ELSE FormAdvances) :
      /\ formPage # "none"
      /\ formData' = [formData EXCEPT ![name] = value]
      /\ summary' = BookingSummary(formData')
      /\ UNCHANGED <<formPage, formBooking>>

\* Cancel: the form is left.
Form_cancel ==
  /\ formPage # "none"
  /\ formPage' = "none"
  /\ formData' = EmptyForm
  /\ formBooking' = NoAcct
  /\ summary' = NoSummary

FormInit == LedgerStart /\ ViewIdle /\ MoneyStart /\ FormStart /\ StatusStart /\ EventStart /\ AuthStart /\ ReportStart /\ BusyStart /\ RoomStart /\ ItemStart /\ EventFormStart /\ MonthStart /\ AdvanceStart /\ HandlerStart /\ NavStart

FormNext ==
  /\ \/ NewBooking_mount
     \/ EditBooking_fetchBooking
     \/ handleInputChange
     \/ Form_cancel
  /\ UNCHANGED <<ledgerVars, viewVars, moneyVars, statusVars, eventVars, authVars, reportVars, busyVars, roomVars, itemVars, eventFormVars, monthVars, advanceVars, handlerVars, navVars>>

SpecForm == FormInit /\ [][FormNext]_vars

\* ------------------------------------------------------- booking status

\* Bookings page row and booking detail page: Check In is rendered when
\* booking.status === 'Confirmed'; the dashboard's check-in list holds the
\* bookings the backend returned as due to check in.
OffersCheckIn(status) == status = "Confirmed"

OffersCheckOut_Always(status) == status \in {"Confirmed", "Checked In"}

\* Check Out is rendered when booking.status === 'Checked In'.
OffersCheckOut(status) == status = "Checked In"

\* Booking detail: Cancel Booking is rendered with Check In.
OffersCancel(status) == status = "Confirmed"

\* Booking detail: Delete Booking is rendered for Cancelled and Checked Out.
OffersDelete(status) == status \in {"Cancelled", "Checked Out"}

\* Backend: the status a sub-action requires of the stored booking.
BackendAccepts(status, kind) ==
  CASE kind = "check-in"  -> status = "Confirmed"
    [] kind = "check-out" -> status = "Checked In"
    [] kind = "cancel"    -> status \in {"Confirmed", "Checked In"}
    [] kind = "delete"    -> status # "None"

BackendResult(kind) ==
  CASE kind = "check-in"  -> "Checked In"
    [] kind = "check-out" -> "Checked Out"
    [] kind = "cancel"    -> "Cancelled"
    [] kind = "delete"    -> "None"

\* A status button of client c is pressed: the request is sent unless the
\* network fails, the backend applies it or answers with an error; on
\* success the page refetches, on error it alerts and keeps what it shows.
StatusRequest(c, kind) ==
  \E delivered \in BOOLEAN :
    LET ok == delivered /\ BackendAccepts(bkStatus, kind)
    IN /\ sent' = [by |-> c, kind |-> kind, ok |-> ok, from |-> bkStatus]
       /\ bkStatus' = IF ok THEN BackendResult(kind) ELSE bkStatus
       /\ shown' = IF ok THEN [shown EXCEPT ![c] = BackendResult(kind)] ELSE shown

\* Bookings page row: Check In
List_handleCheckIn(c) == OffersCheckIn(shown[c]) /\ StatusRequest(c, "check-in")

\* Bookings page row: Check Out
List_handleCheckOut(c) == OffersCheckOut(shown[c]) /\ StatusRequest(c, "check-out")

\* Booking detail: Check In Guest
Page_handleCheckIn(c) == OffersCheckIn(shown[c]) /\ StatusRequest(c, "check-in")

\* Booking detail: Check Out Guest
Page_handleCheckOut(c) == OffersCheckOut(shown[c]) /\ StatusRequest(c, "check-out")

\* Booking detail: Cancel Booking
Page_handleCancel(c) == OffersCancel(shown[c]) /\ StatusRequest(c, "cancel")

\* Booking detail: Delete Booking
Page_handleDelete(c) == OffersDelete(shown[c]) /\ StatusRequest(c, "delete")

\* Dashboard: Check In on a row of today's check-ins
Home_handleCheckIn(c) == OffersCheckIn(shown[c]) /\ StatusRequest(c, "check-in")

\* Dashboard: Cancel on a row of today's check-ins
Home_handleCancelBooking(c) == OffersCheckIn(shown[c]) /\ StatusRequest(c, "cancel")

\* A page is opened or reloaded and fetches the booking.
fetchBooking(c) ==
  /\ shown' = [shown EXCEPT ![c] = bkStatus]
  /\ UNCHANGED <<bkStatus, sent>>

StatusInit == LedgerStart /\ ViewIdle /\ MoneyStart /\ FormStart /\ StatusStart /\ EventStart /\ AuthStart /\ ReportStart /\ BusyStart /\ RoomStart /\ ItemStart /\ EventFormStart /\ MonthStart /\ AdvanceStart /\ HandlerStart /\ NavStart

StatusNext ==
  /\ \E c \in Clients :
       \/ List_handleCheckIn(c)
       \/ List_handleCheckOut(c)
       \/ Page_handleCheckIn(c)
       \/ Page_handleCheckOut(c)
       \/ Page_handleCancel(c)
       \/ Page_handleDelete(c)
       \/ Home_handleCheckIn(c)
       \/ Home_handleCancelBooking(c)
       \/ fetchBooking(c)
  /\ UNCHANGED <<ledgerVars, viewVars, moneyVars, formVars, eventVars, authVars, reportVars, busyVars, roomVars, itemVars, eventFormVars, monthVars, advanceVars, handlerVars, navVars>>

SpecStatus == StatusInit /\ [][StatusNext]_vars

\* ------------------------------------------------------ event detail page

EventNames == {"Wedding", "Party"}

NoteTexts == {"", "call caterer", "paid in cash"}

\* fetchEvent: the stored event replaces the page's `event`.
fetchEvent ==
  /\ evt.status # "None"
  /\ event' = evt
  /\ editingField' = ""
  /\ editValue' = ""
  /\ evAlert' = ""
  /\ UNCHANGED evt

\* The title is clicked: the in-place editor opens on booking_name.
startEditing ==
  /\ event # NoEvent
  /\ editingField = ""
  /\ editingField' = "booking_name"
  /\ editValue' = event.booking_name
  /\ evAlert' = ""
  /\ UNCHANGED <<evt, event>>

\* The in-place editor's text is changed.
setEditValue ==
  \E v \in EventNames :
    /\ editingField = "booking_name"
    /\ editValue' = v
    /\ evAlert' = ""
    /\ UNCHANGED <<evt, event, editingField>>

\* saveField(field, value): PUT {field: value}; on an OK response the event
\* is fetched again and the editor closes, otherwise 'Failed to save'.
saveField(field, value, ok) ==
  /\ evt' = IF ok THEN [evt EXCEPT ![field] = value] ELSE evt
  /\ event' = IF ok THEN evt' ELSE event
  /\ editingField' = IF ok THEN "" ELSE editingField
  /\ evAlert' = IF ok THEN "" ELSE "Failed to save"
  /\ UNCHANGED editValue

\* The in-place editor loses focus.
Name_onBlur ==
  \E ok \in BOOLEAN :
    /\ event # NoEvent
    /\ editingField = "booking_name"
    /\ saveField("booking_name", editValue, ok)

\* Notes textarea onChange: the typed text is written into event.notes.
Notes_onChange ==
  \E value \in NoteTexts :
    /\ event # NoEvent
    /\ event' = [event EXCEPT !.notes = value]
    /\ evAlert' = ""
    /\ UNCHANGED <<evt, editingField, editValue>>

\* Notes textarea onBlur: saveField('notes', e.target.value)
Notes_onBlur ==
  \E ok \in BOOLEAN :
    /\ event # NoEvent
    /\ saveField("notes", event.notes, ok)

\* Mark as Completed and Cancel Event are rendered while event.status is
\* 'Confirmed'.
OffersUpdateStatus(status) == status = "Confirmed"

OffersDeleteEvent_AnyClosed(status) == status \in {"Cancelled", "Completed"}

\* Delete Event is rendered while event.status is 'Cancelled'.
OffersDeleteEvent(status) == status = "Cancelled"

\* updateStatus(newStatus): PUT {status: newStatus}, then fetchEvent.
updateStatus ==
  \E newStatus \in {"Completed", "Cancelled"}, ok \in BOOLEAN :
    /\ event # NoEvent
    /\ OffersUpdateStatus(event.status)
    /\ evt' = IF ok THEN [evt EXCEPT !.status = newStatus] ELSE evt
    /\ event' = IF ok THEN evt' ELSE event
    /\ evAlert' = IF ok THEN "" ELSE "Failed to update status"
    /\ UNCHANGED <<editingField, editValue>>

\* deleteEvent: DELETE, then the page is left for /events.
deleteEvent ==
  \E ok \in BOOLEAN :
    /\ event # NoEvent
    /\ OffersDeleteEvent(event.status)
    /\ evt' = IF ok THEN NoEvent ELSE evt
    /\ event' = IF ok THEN NoEvent ELSE event
    /\ editingField' = IF ok THEN "" ELSE editingField
    /\ editValue' = IF ok THEN "" ELSE editValue
    /\ evAlert' = IF ok THEN "" ELSE "Failed to delete event"

EventInit ==
  LedgerStart /\ ViewIdle /\ MoneyStart /\ FormStart /\ StatusStart /\ EventStart /\ AuthStart /\ ReportStart /\ BusyStart /\ RoomStart /\ ItemStart /\ EventFormStart /\ MonthStart /\ AdvanceStart /\ HandlerStart /\ NavStart

EventNext ==
  /\ \/ fetchEvent
     \/ startEditing
     \/ setEditValue
     \/ Name_onBlur
     \/ Notes_onChange
     \/ Notes_onBlur
     \/ updateStatus
     \/ deleteEvent
  /\ UNCHANGED <<ledgerVars, viewVars, moneyVars, formVars, statusVars, authVars, reportVars, busyVars, roomVars, itemVars, eventFormVars, monthVars, advanceVars, handlerVars, navVars>>

SpecEvent == EventInit /\ [][EventNext]_vars

\* ----------------------------------------------------------- auth tokens

Tokens == {"jwt1", "jwt2", "jwt3"}

\* lib/api.ts setAuthToken
setAuthToken(token) == authToken' = token

\* lib/auth.ts setToken
setToken(token) == hotel_token' = token

\* loginHotel up to its await: POST /auth/login is sent; the server will
\* answer with a token or with an error.
loginHotel_request ==
  \E ok \in BOOLEAN, t \in Tokens :
    /\ ~loginInflight.sent
    /\ loginInflight' = [sent |-> TRUE, ok |-> ok, access_token |-> t]
    /\ authLast' = "login-request"
    /\ UNCHANGED <<authToken, hotel_token, ctxToken, user>>

\* loginHotel after its await: api.post throws on an error response and
\* nothing is stored; otherwise both copies are set, and the context's
\* login copies the stored token into its state and fetches the profile,
\* which may fail.
loginHotel_response ==
  \E profileOk \in BOOLEAN :
    /\ loginInflight.sent
    /\ loginInflight' = NoLogin
    /\ IF loginInflight.ok
         THEN /\ setAuthToken(loginInflight.access_token)
              /\ setToken(loginInflight.access_token)
              /\ ctxToken' = loginInflight.access_token
              /\ user' = IF profileOk THEN "hotel_admin" ELSE user
              /\ authLast' = "login-ok"
         ELSE /\ UNCHANGED <<authToken, hotel_token, ctxToken, user>>
              /\ authLast' = "login-failed"

\* logoutHotel: POST /auth/logout, errors ignored; no token is touched.
logoutHotel ==
  /\ authLast' = "logoutHotel"
  /\ UNCHANGED <<authToken, hotel_token, ctxToken, loginInflight, user>>

clearToken_StorageOnly ==
  /\ hotel_token' = ""
  /\ authLast' = "clearToken"
  /\ UNCHANGED <<authToken, ctxToken, loginInflight, user>>

\* clearToken: localStorage.removeItem('hotel_token'); setAuthToken(null)
clearToken ==
  /\ hotel_token' = ""
  /\ setAuthToken("")
  /\ authLast' = "clearToken"
  /\ UNCHANGED <<ctxToken, loginInflight, user>>

\* AuthContext logout: logoutHotel(), clearToken(), setToken(null),
\* setUser(null)
logout ==
  /\ hotel_token' = ""
  /\ setAuthToken("")
  /\ ctxToken' = ""
  /\ user' = ""
  /\ authLast' = "logout"
  /\ UNCHANGED loginInflight

AuthInit ==
  /\ LedgerStart /\ ViewIdle /\ MoneyStart /\ FormStart /\ StatusStart /\ EventStart
  /\ AuthStart /\ ReportStart /\ BusyStart /\ RoomStart /\ ItemStart /\ EventFormStart /\ MonthStart /\ AdvanceStart /\ HandlerStart /\ NavStart

AuthNext ==
  /\ \/ loginHotel_request
     \/ loginHotel_response
     \/ logoutHotel
     \/ clearToken
     \/ logout
  /\ UNCHANGED <<ledgerVars, viewVars, moneyVars, formVars, statusVars, eventVars, reportVars, busyVars, roomVars, itemVars, eventFormVars, monthVars, advanceVars, handlerVars, navVars>>

SpecAuth == AuthInit /\ [][AuthNext]_vars

\* ------------------------------------------------------------ reports page

\* Number of fetchReportData calls that may await their responses at once.
MaxOutstanding == 2

\* Records the backend holds: up to two bookings, expenses of 500 and events
\* (price 10000, collected 4000, vendor cost 6000) on the listed days.
ReportSources ==
  LET old == [room |-> 101, ci |-> 5, co |-> 6, status |-> "Checked Out"]
      cur == [room |-> 101, ci |-> 10, co |-> 11, status |-> "Checked In"]
  IN {[bookings |-> l, expenseDays |-> x, eventDays |-> e] :
        l \in {<<cur>>, <<old, cur>>},
        x \in {{5}, {5, 10}},
        e \in {{}, {5, 10}}}

InWindow(day, from, to) == day >= from /\ day <= to

\* Backend: GET /bookings/?date_from=&date_to=
BookingsResponse(src, from, to) ==
  SelectSeq(src.bookings, LAMBDA b : InWindow(b.ci, from, to))

\* Backend: GET /bookings/revenue/summary; every booking is 4000, of which
\* 1000 is collected.
RevenueSummary(src, from, to) ==
  LET n == Len(BookingsResponse(src, from, to))
  IN [ok |-> TRUE, total_revenue |-> 4000 * n, revenue_collected |-> 1000 * n,
      revenue_pending |-> 3000 * n]

\* Backend: GET /expenses/summary
ExpensesSummary(src, from, to) ==
  [ok |-> TRUE,
   total_amount |-> 500 * Cardinality({d \in src.expenseDays : InWindow(d, from, to)})]

\* Backend: GET /event-bookings/summary
EventsSummary(src, from, to) ==
  LET n == Cardinality({d \in src.eventDays : InWindow(d, from, to)})
  IN [ok |-> TRUE, total_revenue |-> 10000 * n, total_collected |-> 4000 * n,
      revenue_pending |-> 6000 * n, total_expenses |-> 6000 * n,
      total_profit |-> 4000 * n]

ReportFor_Accumulate(src, type, from, to, day) ==
  LET fresh == ReportOf([ok |-> TRUE, total_rooms |-> 2, active_rooms |-> 2],
                        BookingsResponse(src, from, to), ExpensesSummary(src, from, to),
                        RevenueSummary(src, from, to), EventsSummary(src, from, to),
                        type, from, to, day)
      before == IF reportData = NoReport THEN 0 ELSE reportData.revenue.total
  IN [fresh EXCEPT !.revenue.total = @ + before, !.profit = @ + before]

\* The report fetchReportData computes for a window and filter once its five
\* responses are in.
ReportFor(src, type, from, to, day) ==
  ReportOf([ok |-> TRUE, total_rooms |-> 2, active_rooms |-> 2],
           BookingsResponse(src, from, to), ExpensesSummary(src, from, to),
           RevenueSummary(src, from, to), EventsSummary(src, from, to),
           type, from, to, day)

\* getDateRange(preset); setMonth(month - 1) is taken as 30 days.
getDateRange(preset, day) ==
  CASE preset = "today" -> [from |-> day, to |-> day]
    [] preset = "week" -> [from |-> day - 7, to |-> day]
    [] OTHER -> [from |-> day - 30, to |-> day]

\* useEffect(..., [dateFrom, dateTo, bookingType]): a changed dependency
\* starts fetchReportData with the new values.
EffectRequests(type, from, to) ==
  IF <<type, from, to>> # <<bookingType, dateFrom, dateTo>>
    THEN reqs \cup {[type |-> type, from |-> from, to |-> to]}
    ELSE reqs

\* handlePresetChange, with at most `limit` fetches outstanding afterwards.
handlePresetChange(limit) ==
  \E preset \in {"today", "week", "month"} :
    LET range == getDateRange(preset, today)
    IN /\ shownFor # NoParams \/ reqs # {}
       /\ Cardinality(reqs) < limit
       /\ datePreset' = preset
       /\ dateFrom' = range.from
       /\ dateTo' = range.to
       /\ reqs' = EffectRequests(bookingType, range.from, range.to)
       /\ UNCHANGED <<server, bookingType, shownFor, firstReport, firstFor,
                      refetched, reportData, today, pageBookings, stats, cell>>

\* The booking-type select is changed.
setBookingType(limit) ==
  \E type \in {"both", "hotel", "events"} :
    /\ shownFor # NoParams \/ reqs # {}
    /\ Cardinality(reqs) < limit
    /\ bookingType' = type
    /\ reqs' = EffectRequests(type, dateFrom, dateTo)
    /\ UNCHANGED <<server, datePreset, dateFrom, dateTo, shownFor, firstReport,
                   firstFor, refetched, reportData, today, pageBookings, stats, cell>>

\* The responses of one fetchReportData call are in: the report for the
\* window and filter the call was started with is stored.
fetchReportData_response ==
  \E q \in reqs :
    /\ reqs' = reqs \ {q}
    /\ reportData' = ReportFor(server, q.type, q.from, q.to, today)
    /\ shownFor' = q
    /\ firstReport' = IF firstFor = NoParams THEN reportData' ELSE firstReport
    /\ firstFor' = IF firstFor = NoParams THEN q ELSE firstFor
    /\ refetched' = (refetched \/ (firstFor = q))
    /\ UNCHANGED <<server, datePreset, bookingType, dateFrom, dateTo,
                   today, pageBookings, stats, cell>>

\* The reports page has mounted with preset 'month' and filter 'both', and
\* its first fetchReportData is outstanding.
ReportInit ==
  /\ LedgerStart /\ MoneyStart /\ FormStart /\ StatusStart /\ EventStart
  /\ AuthStart /\ BusyStart /\ RoomStart /\ ItemStart /\ EventFormStart /\ MonthStart /\ AdvanceStart /\ HandlerStart /\ NavStart
  /\ pageBookings = <<>>
  /\ today = 10
  /\ reportData = NoReport
  /\ stats = NoStats
  /\ cell = NoCell
  /\ server \in ReportSources
  /\ datePreset = "month"
  /\ bookingType = "both"
  /\ dateFrom = getDateRange("month", 10).from
  /\ dateTo = getDateRange("month", 10).to
  /\ reqs = {[type |-> "both", from |-> dateFrom, to |-> dateTo]}
  /\ shownFor = NoParams
  /\ firstReport = NoReport
  /\ firstFor = NoParams
  /\ refetched = FALSE

ReportOthers == <<ledgerVars, moneyVars, formVars, statusVars, eventVars, authVars, busyVars, roomVars, itemVars, eventFormVars, monthVars, advanceVars, handlerVars, navVars>>

\* The user waits for the report before changing the selection again.
ReportNext ==
  /\ \/ handlePresetChange(1)
     \/ setBookingType(1)
     \/ fetchReportData_response
  /\ UNCHANGED ReportOthers

SpecReport == ReportInit /\ [][ReportNext]_vars

\* The user changes the selection while fetches are outstanding.
ReportRaceNext ==
  /\ \/ handlePresetChange(MaxOutstanding)
     \/ setBookingType(MaxOutstanding)
     \/ fetchReportData_response
  /\ UNCHANGED ReportOthers

SpecReportRace == ReportInit /\ [][ReportRaceNext]_vars

\* ------------------------------------------------- busy flags of the rows

\* Number of status requests that may be in flight at once.
MaxCalls == 2

RECURSIVE SumCalls(_, _)
SumCalls(calls, keys) ==
  IF keys = {} THEN 0
  ELSE LET k == CHOOSE x \in keys : TRUE
       IN calls[k] + SumCalls(calls, keys \ {k})

InFlight == SumCalls(listCalls, DOMAIN listCalls) + SumCalls(dashCalls, DOMAIN dashCalls)

\* disabled={actionLoading === booking.id}
RowDisabled(loadingId, calls, id) == loadingId = id

\* Bookings page handleCheckIn / handleCheckOut up to the await of fetch():
\* the confirm() was accepted, the row is marked busy and the request leaves.
List_send(id, kind) ==
  /\ InFlight < MaxCalls
  /\ ~RowDisabled(actionLoading, listCalls, id)
  /\ actionLoading' = id
  /\ listCalls' = [listCalls EXCEPT ![<<id, kind>>] = @ + 1]
  /\ UNCHANGED <<stored, listRows, todayCheckins, checkInLoading, dashCalls>>

List_handleCheckIn_send(id) == OffersCheckIn(listRows[id]) /\ List_send(id, "check-in")

List_handleCheckOut_send(id) == OffersCheckOut(listRows[id]) /\ List_send(id, "check-out")

\* Bookings page handleCheckIn / handleCheckOut from the response on: on
\* success fetchBookings (which catches its own errors), otherwise an alert;
\* finally setActionLoading(null).
List_settle(id, kind) ==
  \E delivered \in BOOLEAN, fetched \in BOOLEAN :
    LET ok == delivered /\ BackendAccepts(stored[id], kind)
    IN /\ listCalls[<<id, kind>>] > 0
       /\ listCalls' = [listCalls EXCEPT ![<<id, kind>>] = @ - 1]
       /\ stored' = IF ok THEN [stored EXCEPT ![id] = BackendResult(kind)] ELSE stored
       /\ listRows' = IF ok /\ fetched THEN stored' ELSE listRows
       /\ actionLoading' = 0
       /\ UNCHANGED <<todayCheckins, checkInLoading, dashCalls>>

\* Dashboard handleCheckIn up to the await of api.post.
Home_handleCheckIn_send(id) ==
  /\ InFlight < MaxCalls
  /\ id \in todayCheckins
  /\ ~RowDisabled(checkInLoading, dashCalls, id)
  /\ checkInLoading' = id
  /\ dashCalls' = [dashCalls EXCEPT ![<<id, "check-in">>] = @ + 1]
  /\ UNCHANGED <<stored, listRows, actionLoading, listCalls, todayCheckins>>

\* Dashboard handleCheckIn from the response on: loadDashboardStats on
\* success (its catch keeps the lists), an alert otherwise; finally
\* setCheckInLoading(null).
Home_handleCheckIn_settle(id) ==
  \E delivered \in BOOLEAN, fetched \in BOOLEAN :
    LET ok == delivered /\ BackendAccepts(stored[id], "check-in")
    IN /\ dashCalls[<<id, "check-in">>] > 0
       /\ dashCalls' = [dashCalls EXCEPT ![<<id, "check-in">>] = @ - 1]
       /\ stored' = IF ok THEN [stored EXCEPT ![id] = "Checked In"] ELSE stored
       /\ todayCheckins' = IF ok /\ fetched
                             THEN {b \in BusyIds : stored'[b] = "Confirmed"}
                             ELSE todayCheckins
       /\ checkInLoading' = 0
       /\ UNCHANGED <<listRows, actionLoading, listCalls>>

BusyInit ==
  /\ LedgerStart /\ ViewIdle /\ MoneyStart /\ FormStart /\ StatusStart /\ EventStart
  /\ AuthStart /\ ReportStart /\ RoomStart /\ ItemStart /\ EventFormStart /\ MonthStart /\ AdvanceStart /\ HandlerStart /\ NavStart
  /\ BusyStart /\ RoomStart /\ ItemStart /\ EventFormStart /\ MonthStart /\ AdvanceStart /\ HandlerStart /\ NavStart

BusyOthers == <<ledgerVars, viewVars, moneyVars, formVars, statusVars, eventVars, authVars, reportVars, roomVars, itemVars, eventFormVars, monthVars, advanceVars, handlerVars, navVars>>

BusyNext ==
  /\ \E id \in BusyIds :
       \/ List_handleCheckIn_send(id)
       \/ List_handleCheckOut_send(id)
       \/ List_settle(id, "check-in")
       \/ List_settle(id, "check-out")
       \/ Home_handleCheckIn_send(id)
       \/ Home_handleCheckIn_settle(id)
  /\ UNCHANGED BusyOthers

SpecBusy == BusyInit /\ [][BusyNext]_vars

\* ------------------------------------------------------- choice of a room

\* New booking form: fetchRooms keeps the rooms whose status is 'Active'.
NewBooking_fetchRooms == {r \in RoomIds : roomStatus[r] = "Active"}

\* Edit booking form: fetchRooms keeps every room of the response.
EditBooking_fetchRooms == RoomIds

\* Calendar: a free cell is a link to the new booking form only when the
\* room's status is 'active'.
CellLinksToNew(r) == roomStatus[r] = "Active"

\* A free calendar cell of room r is followed: the form opens with the
\* room taken from the URL.
Calendar_openNew ==
  \E r \in RoomIds :
    /\ roomForm = "none"
    /\ CellLinksToNew(r)
    /\ roomForm' = "new"
    /\ formRooms' = NewBooking_fetchRooms
    /\ room_id' = r
    /\ UNCHANGED <<roomStatus, sentRoom>>

\* The new booking form is opened from the navigation, no room in the URL.
NewBooking_open ==
  /\ roomForm = "none"
  /\ roomForm' = "new"
  /\ formRooms' = NewBooking_fetchRooms
  /\ room_id' = 0
  /\ UNCHANGED <<roomStatus, sentRoom>>

\* The edit form of a booking (of an Active room) is opened.
EditBooking_open ==
  \E r \in RoomIds :
    /\ roomForm = "none"
    /\ roomStatus[r] = "Active"
    /\ roomForm' = "edit"
    /\ formRooms' = EditBooking_fetchRooms
    /\ room_id' = r
    /\ UNCHANGED <<roomStatus, sentRoom>>

\* An option of the Room select is chosen.
selectRoom ==
  \E r \in formRooms :
    /\ roomForm # "none"
    /\ room_id' = r
    /\ UNCHANGED <<roomStatus, roomForm, formRooms, sentRoom>>

\* handleSubmit of the open form: the select is `required`, the request
\* carries parseInt(formData.room_id), and the form is left.
Room_handleSubmit ==
  /\ roomForm # "none"
  /\ room_id # 0
  /\ sentRoom' = room_id
  /\ roomForm' = "none"
  /\ formRooms' = {}
  /\ room_id' = 0
  /\ UNCHANGED roomStatus

RoomInit ==
  /\ LedgerStart /\ ViewIdle /\ MoneyStart /\ FormStart /\ StatusStart /\ EventStart
  /\ AuthStart /\ ReportStart /\ BusyStart /\ ItemStart /\ EventFormStart /\ MonthStart /\ AdvanceStart /\ HandlerStart /\ NavStart
  /\ roomStatus \in [RoomIds -> RoomStatuses]
  /\ roomForm = "none"
  /\ formRooms = {}
  /\ room_id = 0
  /\ sentRoom = 0

RoomOthers == <<ledgerVars, viewVars, moneyVars, formVars, statusVars, eventVars, authVars, reportVars, busyVars, itemVars, eventFormVars, monthVars, advanceVars, handlerVars, navVars>>

RoomNext ==
  /\ \/ Calendar_openNew
     \/ NewBooking_open
     \/ EditBooking_open
     \/ selectRoom
     \/ Room_handleSubmit
  /\ UNCHANGED RoomOthers

SpecRoom == RoomInit /\ [][RoomNext]_vars

\* -------------------------------------------------------- add-item dialog

\* Texts typed into the name input.
ItemNames == {"", " ", "Taxi"}

\* Texts typed into the two number inputs.
NumberTexts == {"", "0", "2", "50", "-2"}

NaN == [nan |-> TRUE, n |-> 0]

Num(n) == [nan |-> FALSE, n |-> n]

\* parseInt / parseFloat of the typed text.
ParseNumber(text) ==
  CASE text = "0" -> Num(0)
    [] text = "2" -> Num(2)
    [] text = "50" -> Num(50)
    [] text = "-2" -> Num(0 - 2)
    [] OTHER -> NaN

\* value || fallback for a parsed number: NaN and 0 are falsy.
OrElse(value, fallback) == IF value.nan \/ value.n = 0 THEN fallback ELSE value.n

\* String.prototype.trim
Trim(text) == IF text = " " THEN "" ELSE text

\* onChange of the name input
Item_setName ==
  \E text \in ItemNames :
    /\ newItem' = [newItem EXCEPT !.name = text]
    /\ UNCHANGED <<itemSent, itemAlert>>

\* onChange of the quantity input: parseInt(e.target.value) || 1
Item_setQuantity ==
  \E text \in NumberTexts :
    /\ newItem' = [newItem EXCEPT !.quantity = OrElse(ParseNumber(text), 1)]
    /\ UNCHANGED <<itemSent, itemAlert>>

\* onChange of the price input: parseFloat(e.target.value) || 0
Item_setPrice ==
  \E text \in NumberTexts :
    /\ newItem' = [newItem EXCEPT !.price = OrElse(ParseNumber(text), 0)]
    /\ UNCHANGED <<itemSent, itemAlert>>

\* handleAddItem of the booking detail page and of the dashboard: the two
\* checks, then the request; on success the dialog is reset.
Item_handleAddItem ==
  \E ok \in BOOLEAN :
    IF Trim(newItem.name) = ""
      THEN /\ itemAlert' = "Please enter an item name"
           /\ UNCHANGED <<newItem, itemSent>>
    ELSE IF newItem.price < 0
      THEN /\ itemAlert' = "Price cannot be negative"
           /\ UNCHANGED <<newItem, itemSent>>
    ELSE /\ itemSent' = [service_name |-> Trim(newItem.name),
                         quantity |-> newItem.quantity,
                         unit_price |-> newItem.price]
         /\ newItem' = IF ok THEN EmptyItem ELSE newItem
         /\ itemAlert' = IF ok THEN "" ELSE "Failed to add item"

ItemInit ==
  /\ LedgerStart /\ ViewIdle /\ MoneyStart /\ FormStart /\ StatusStart /\ EventStart
  /\ AuthStart /\ ReportStart /\ BusyStart /\ RoomStart /\ EventFormStart /\ MonthStart /\ AdvanceStart /\ HandlerStart /\ NavStart
  /\ ItemStart /\ EventFormStart /\ MonthStart /\ AdvanceStart /\ HandlerStart /\ NavStart

ItemOthers == <<ledgerVars, viewVars, moneyVars, formVars, statusVars, eventVars, authVars, reportVars, busyVars, roomVars, eventFormVars, monthVars, advanceVars, handlerVars, navVars>>

ItemNext ==
  /\ \/ Item_setName
     \/ Item_setQuantity
     \/ Item_setPrice
     \/ Item_handleAddItem
  /\ UNCHANGED ItemOthers

SpecItem == ItemInit /\ [][ItemNext]_vars

\* --------------------------------------------------------- new-event form

\* Number of custom service rows the form may hold.
MaxCustom == 2

CustomerPrices == {0, 1000}

VendorCosts == {0, 600}

CustomNames == {"", "DJ"}

RECURSIVE SumField(_, _)
\* Array.prototype.reduce((sum, s) => sum + s[field], 0)
SumField(list, field) ==
  IF list = <<>> THEN 0 ELSE Head(list)[field] + SumField(Tail(list), field)

\* calculateTotals over [...services, ...customServices]
calculateTotals(fixed, custom) ==
  LET allServices == fixed \o custom
      totalCustomerPrice == SumField(allServices, "customer_price")
      totalVendorCost == SumField(allServices, "vendor_cost")
  IN [totalCustomerPrice |-> totalCustomerPrice, totalVendorCost |-> totalVendorCost,
      profit |-> totalCustomerPrice - totalVendorCost]

\* handleSubmit: the services of the request body.
SubmittedServices(fixed, custom) ==
  [i \in 1..Len(fixed) |->
     [service_type |-> fixed[i].service_type, custom_service_name |-> "null",
      customer_price |-> fixed[i].customer_price, vendor_cost |-> fixed[i].vendor_cost]]
  \o
  LET named == SelectSeq(custom, LAMBDA s : Trim(s.custom_service_name) # "")
  IN [i \in 1..Len(named) |->
        [service_type |-> "Custom", custom_service_name |-> named[i].custom_service_name,
         customer_price |-> named[i].customer_price, vendor_cost |-> named[i].vendor_cost]]

\* handleServiceChange(index, field, value) for the two price fields
handleServiceChange ==
  \E index \in 1..Len(fixedServices), price \in CustomerPrices, cost \in VendorCosts :
    /\ eventRequest = NoEventRequest
    /\ \/ fixedServices' = [fixedServices EXCEPT ![index].customer_price = price]
       \/ fixedServices' = [fixedServices EXCEPT ![index].vendor_cost = cost]
    /\ UNCHANGED <<customServices, eventRequest>>

\* handleCustomServiceChange(index, field, value)
handleCustomServiceChange ==
  \E index \in 1..Len(customServices), name \in CustomNames,
     price \in CustomerPrices, cost \in VendorCosts :
    /\ eventRequest = NoEventRequest
    /\ \/ customServices' = [customServices EXCEPT ![index].custom_service_name = name]
       \/ customServices' = [customServices EXCEPT ![index].customer_price = price]
       \/ customServices' = [customServices EXCEPT ![index].vendor_cost = cost]
    /\ UNCHANGED <<fixedServices, eventRequest>>

addCustomService ==
  /\ eventRequest = NoEventRequest
  /\ Len(customServices) < MaxCustom
  /\ customServices' = Append(customServices,
       [service_type |-> "Custom", custom_service_name |-> "",
        customer_price |-> 0, vendor_cost |-> 0])
  /\ UNCHANGED <<fixedServices, eventRequest>>

\* removeCustomService(index): filter((_, i) => i !== index)
removeCustomService ==
  \E index \in 1..Len(customServices) :
    /\ eventRequest = NoEventRequest
    /\ customServices' = [i \in 1..(Len(customServices) - 1) |->
                            IF i < index THEN customServices[i] ELSE customServices[i + 1]]
    /\ UNCHANGED <<fixedServices, eventRequest>>

\* handleSubmit: the request leaves with the Financial Summary as rendered.
NewEvent_handleSubmit ==
  /\ eventRequest = NoEventRequest
  /\ eventRequest' = [sent |-> TRUE,
                      services |-> SubmittedServices(fixedServices, customServices),
                      totals |-> calculateTotals(fixedServices, customServices)]
  /\ UNCHANGED <<fixedServices, customServices>>

EventFormInit ==
  /\ LedgerStart /\ ViewIdle /\ MoneyStart /\ FormStart /\ StatusStart /\ EventStart
  /\ AuthStart /\ ReportStart /\ BusyStart /\ RoomStart /\ ItemStart /\ MonthStart /\ AdvanceStart /\ HandlerStart /\ NavStart
  /\ EventFormStart /\ MonthStart /\ AdvanceStart /\ HandlerStart /\ NavStart

EventFormOthers == <<ledgerVars, viewVars, moneyVars, formVars, statusVars, eventVars, authVars, reportVars, busyVars, roomVars, itemVars, monthVars, advanceVars, handlerVars, navVars>>

EventFormNext ==
  /\ \/ handleServiceChange
     \/ handleCustomServiceChange
     \/ addCustomService
     \/ removeCustomService
     \/ NewEvent_handleSubmit
  /\ UNCHANGED EventFormOthers

SpecEventForm == EventFormInit /\ [][EventFormNext]_vars

\* ------------------------------------------- dashboard, monthly figures

\* Day numbers: 1..30 is the previous month, 31 the first day of the
\* current month.
FirstOfMonth == 31

HOURS_PER_DAY == 24

\* The instant, in hours since UTC midnight of day 0, of a local date and hour.
Instant(day, hour, offset) == day * HOURS_PER_DAY + hour - offset

\* Date.prototype.toISOString().split('T')[0]: the UTC date of an instant.
toISODate(instant) == instant \div HOURS_PER_DAY

\* Backend: GET /bookings/revenue/summary?date_from=&date_to=; every
\* recorded day carries 1000.
MonthRevenue(from, to) ==
  1000 * Cardinality({d \in ledger.revenueDays : d >= from /\ d <= to})

\* Backend: GET /expenses/summary without a window; every recorded day
\* carries 400.
AllExpenses == 400 * Cardinality(ledger.expenseDays)

\* Backend: the expenses of a window.
MonthExpenses(from, to) ==
  400 * Cardinality({d \in ledger.expenseDays : d >= from /\ d <= to})

\* loadDashboardStats: the expense summary, the revenue summary of
\* firstOfMonth..todayStr, and the two monthly figures of setStats.
loadDashboardStats_monthly ==
  LET firstOfMonth == toISODate(Instant(FirstOfMonth, 0, clock.offset))
      todayStr == toISODate(Instant(clock.day, clock.hour, clock.offset))
  IN /\ monthly' = [loaded |-> TRUE,
                    date_from |-> firstOfMonth,
                    date_to |-> todayStr,
                    monthly_revenue |-> MonthRevenue(firstOfMonth, todayStr),
                    monthly_expenses |-> AllExpenses]
     /\ UNCHANGED <<clock, ledger>>

\* Time passes to a later hour of the day.
Tick ==
  /\ clock.hour < 22
  /\ clock' = [clock EXCEPT !.hour = 22]
  /\ UNCHANGED <<ledger, monthly>>

MonthInit ==
  /\ LedgerStart /\ ViewIdle /\ MoneyStart /\ FormStart /\ StatusStart /\ EventStart
  /\ AuthStart /\ ReportStart /\ BusyStart /\ RoomStart /\ ItemStart /\ EventFormStart /\ AdvanceStart /\ HandlerStart /\ NavStart
  /\ clock \in [day : {31, 45}, hour : {2, 12}, offset : {0 - 5, 0, 5}]
  /\ ledger \in [revenueDays : SUBSET {30, 31, 45}, expenseDays : SUBSET {20, 31}]
  /\ monthly = NoMonthly

MonthOthers == <<ledgerVars, viewVars, moneyVars, formVars, statusVars, eventVars, authVars, reportVars, busyVars, roomVars, itemVars, eventFormVars, advanceVars, handlerVars, navVars>>

MonthNext ==
  /\ \/ loadDashboardStats_monthly
     \/ Tick
  /\ UNCHANGED MonthOthers

SpecMonth == MonthInit /\ [][MonthNext]_vars

\* ------------------------------------------- busy flags of the handlers

\* Number of handler runs that may be under way at once.
MaxRuns == 2

Outcomes == {"ok", "error", "throws"}

RunsOf(p) == runs[p].request + runs[p].refetch

RunsUnderWay == RunsOf("detail") + RunsOf("event") + RunsOf("list") + RunsOf("dashboard")

\* The booking detail page disables every action button while actionLoading;
\* the event page's inline editors save on blur whatever `saving` is, and the
\* list and the dashboard mark one row only.
CanStart(p) == p # "detail" \/ flag[p] = "idle"

FlagAfterSettle_NoFinally(outcome) == IF outcome = "throws" THEN "busy" ELSE "idle"

\* finally { setActionLoading(false) }: whatever the outcome was.
FlagAfterSettle(outcome) == "idle"

\* A handler sets its flag and awaits its request.
Handler_start(p) ==
  /\ RunsUnderWay < MaxRuns
  /\ CanStart(p)
  /\ flag' = [flag EXCEPT ![p] = "busy"]
  /\ runs' = [runs EXCEPT ![p].request = @ + 1]
  /\ UNCHANGED lastOutcome

\* The request settles: on success the handler awaits the refetch of its
\* page, on an error response it throws into its catch block, on a network
\* failure fetch throws; catch alerts and finally clears the flag.
Handler_settle(p) ==
  \E outcome \in Outcomes :
    /\ runs[p].request > 0
    /\ lastOutcome' = [page |-> p, outcome |-> outcome]
    /\ IF outcome = "ok"
         THEN /\ runs' = [runs EXCEPT ![p].request = @ - 1, ![p].refetch = @ + 1]
              /\ UNCHANGED flag
         ELSE /\ runs' = [runs EXCEPT ![p].request = @ - 1]
              /\ flag' = [flag EXCEPT ![p] = FlagAfterSettle(outcome)]

\* The refetch (which catches its own errors) returns and finally runs.
Handler_finally(p) ==
  /\ runs[p].refetch > 0
  /\ runs' = [runs EXCEPT ![p].refetch = @ - 1]
  /\ flag' = [flag EXCEPT ![p] = FlagAfterSettle("ok")]
  /\ UNCHANGED lastOutcome

\* Dashboard handleUpdateAdvance: the flag is set, api.put throws at once,
\* catch alerts and finally clears the flag.
Handler_throwsAtOnce ==
  /\ flag' = [flag EXCEPT !["dashboard"] = FlagAfterSettle("throws")]
  /\ lastOutcome' = [page |-> "dashboard", outcome |-> "threw at once"]
  /\ UNCHANGED runs

HandlerInit ==
  /\ LedgerStart /\ ViewIdle /\ MoneyStart /\ FormStart /\ StatusStart /\ EventStart
  /\ AuthStart /\ ReportStart /\ BusyStart /\ RoomStart /\ ItemStart /\ EventFormStart /\ MonthStart /\ AdvanceStart /\ NavStart
  /\ HandlerStart /\ NavStart

HandlerOthers == <<ledgerVars, viewVars, moneyVars, formVars, statusVars, eventVars, authVars, reportVars, busyVars, roomVars, itemVars, eventFormVars, monthVars, advanceVars, navVars>>

HandlerNext ==
  /\ \/ \E p \in Pages : Handler_start(p)
     \/ \E p \in Pages : Handler_settle(p)
     \/ \E p \in Pages : Handler_finally(p)
     \/ Handler_throwsAtOnce
  /\ UNCHANGED HandlerOthers

\* Every request settles and every continuation of a settled request runs.
HandlerFairness ==
  \A p \in Pages :
    /\ WF_vars(Handler_settle(p) /\ UNCHANGED HandlerOthers)
    /\ WF_vars(Handler_finally(p) /\ UNCHANGED HandlerOthers)

SpecHandler == HandlerInit /\ [][HandlerNext]_vars /\ HandlerFairness

\* ------------------------------------------------- calendar navigation

DAYS_TO_DISPLAY == 14

\* Lengths of the six months the calendar is moved through.
MonthLengths == <<31, 28, 31, 30, 31, 30>>

RECURSIVE DaysBefore(_)
\* Days of the months before month m.
DaysBefore(m) == IF m <= 1 THEN 0 ELSE MonthLengths[m - 1] + DaysBefore(m - 1)

\* The position of a date in the run of all days.
DayNumber(date) == DaysBefore(date.month) + date.day

RECURSIVE Normalise(_, _)
\* A day of month outside 1..length rolls into the neighbouring months.
Normalise(m, d) ==
  IF d < 1 THEN Normalise(m - 1, d + MonthLengths[m - 1])
  ELSE IF d > MonthLengths[m] THEN Normalise(m + 1, d - MonthLengths[m])
  ELSE [month |-> m, day |-> d]

\* Date.prototype.setDate(n) on a date of month date.month.
setDate(date, n) == Normalise(date.month, n)

\* calendarDays: DAYS_TO_DISPLAY dates, the i-th by setDate(getDate() + i)
\* on a copy of the start date.
calendarDays ==
  [k \in 1..DAYS_TO_DISPLAY |-> setDate(currentDate, currentDate.day + (k - 1))]

NavigateStep_Fortnightly(direction) == IF direction = "next" THEN 15 ELSE 0 - 14

NavigateStep(direction) ==
  IF direction = "next" THEN DAYS_TO_DISPLAY ELSE 0 - DAYS_TO_DISPLAY

\* The last two elements of a sequence with one more appended.
Recent(seq, x) == IF Len(seq) < 2 THEN Append(seq, x) ELSE <<seq[2], x>>

\* navigateDays(direction); the window stays within the six months.
navigateDays ==
  \E direction \in {"prev", "next"} :
    LET start == DayNumber(currentDate) + NavigateStep(direction)
    IN /\ start >= 1
       /\ start + DAYS_TO_DISPLAY <= DaysBefore(7)
       /\ currentDate' = setDate(currentDate, currentDate.day + NavigateStep(direction))
       /\ starts' = Recent(starts, currentDate)
       /\ directions' = Recent(directions, direction)

\* goToToday: the window starts at today's date, whichever day that is.
goToToday ==
  \E m \in {3, 4}, d \in 1..30 :
    /\ currentDate' = [month |-> m, day |-> d]
    /\ starts' = <<>>
    /\ directions' = <<>>

\* The page is opened on any day of the third or fourth month.
NavInit ==
  /\ LedgerStart /\ ViewIdle /\ MoneyStart /\ FormStart /\ StatusStart /\ EventStart
  /\ AuthStart /\ ReportStart /\ BusyStart /\ RoomStart /\ ItemStart /\ EventFormStart /\ MonthStart /\ AdvanceStart /\ HandlerStart
  /\ currentDate \in {[month |-> m, day |-> d] : m \in {3, 4}, d \in 1..30}
  /\ starts = <<>>
  /\ directions = <<>>

NavOthers == <<ledgerVars, viewVars, moneyVars, formVars, statusVars, eventVars, authVars, reportVars, busyVars, roomVars, itemVars, eventFormVars, monthVars, advanceVars, handlerVars>>

NavNext ==
  /\ \/ navigateDays
     \/ goToToday
  /\ UNCHANGED NavOthers

SpecNav == NavInit /\ [][NavNext]_vars

\* ------------------------------------------------------------ properties

\* Nights a row occupies: check_in up to but not including check_out.
Nights(ci, co) == ci..(co - 1)

SharesNight(b1, b2) == Nights(b1.ci, b1.co) \cap Nights(b2.ci, b2.co) # {}

\* C1: after any sequence of sequentially processed create, update and cancel
\* operations, no two distinct non-cancelled bookings of one room occupy a
\* common night.
C1_NoDoubleBooking ==
  \A i \in BookingIds, j \in BookingIds :
    (i # j /\ IsActive(bookings[i]) /\ IsActive(bookings[j])
       /\ bookings[i].room = bookings[j].room)
      => ~SharesNight(bookings[i], bookings[j])

\* Two non-cancelled bookings of one room, one checking in on the day the
\* other checks out.
C1_Witness ==
  \E i \in BookingIds, j \in BookingIds :
    /\ i # j /\ IsActive(bookings[i]) /\ IsActive(bookings[j])
    /\ bookings[i].room = bookings[j].room
    /\ bookings[i].co = bookings[j].ci

BookingA == [room |-> 101, ci |-> 10, co |-> 12, status |-> "Confirmed"]

\* C2: the availability check reports a conflict for [ci, co) on room r
\* exactly when a non-cancelled booking of r occupies a night of [ci, co);
\* with booking A (room 101, Jan 10 to 12) a request for Jan 11 to 13 is
\* rejected and one checking in on Jan 12 is not rejected because of A.
C2_AvailabilityIff ==
  /\ \A r \in Rooms, ci \in Days, co \in Days :
       ci < co =>
         (HasConflict(bookings, 0, r, ci, co)
            <=> \E i \in BookingIds :
                  /\ bookings[i].status \in {"Confirmed", "Checked In", "Checked Out"}
                  /\ bookings[i].room = r
                  /\ Nights(ci, co) \cap Nights(bookings[i].ci, bookings[i].co) # {})
  /\ (\E i \in BookingIds : bookings[i] = BookingA)
       => BookingResponse(bookings, 0, 101, 11, 13) = "conflict"
  /\ (\A i \in BookingIds :
         (IsActive(bookings[i]) /\ bookings[i].room = 101) => bookings[i] = BookingA)
       => BookingResponse(bookings, 0, 101, 12, 13) = "ok"

\* Booking A is stored and a booking checking in on A's check-out day was
\* accepted for the same room.
C2_Witness ==
  \E i \in BookingIds, j \in BookingIds :
    /\ bookings[i] = BookingA
    /\ bookings[j] = [room |-> 101, ci |-> 12, co |-> 13, status |-> "Confirmed"]

\* C3: under racing create requests, two non-cancelled bookings of one room
\* share a night only if the later one's overlap check ran before the
\* earlier one was inserted; and such a pair can be stored.
C3_OverlapOnlyByRace ==
  \A i \in BookingIds, j \in BookingIds :
    (i < j /\ IsActive(bookings[i]) /\ IsActive(bookings[j])
       /\ bookings[i].room = bookings[j].room
       /\ SharesNight(bookings[i], bookings[j]))
      => checkedAt[j] < i

\* Both racing requests passed the check and both are stored non-cancelled.
C3_Witness ==
  \E i \in BookingIds, j \in BookingIds :
    /\ i < j /\ IsActive(bookings[i]) /\ IsActive(bookings[j])
    /\ bookings[i].room = bookings[j].room
    /\ SharesNight(bookings[i], bookings[j])
    /\ \A c \in Clients : inflight[c] = NoRequest /\ error[c] = ""

FormRoutes == {"/bookings/new", "/bookings/[id]/edit"}

\* C4: a create or update answered with a conflict error leaves every stored
\* booking as it was and leaves the form on its own page with the message.
C4_ConflictChangesNothing ==
  [][error'[1] = "conflict"
       => (bookings' = bookings /\ nextId' = nextId /\ page'[1] \in FormRoutes)]_vars

\* A conflict was reported on the new-booking form, which is still shown.
C4_Witness == error[1] = "conflict" /\ page[1] = "/bookings/new"

\* C10: every stored booking has check_out after check_in, and a submission
\* answered with a validation error leaves every stored booking as it was.
C10_CheckOutAfterCheckIn ==
  [][/\ \A i \in BookingIds :
          bookings'[i] # NoBooking => bookings'[i].co > bookings'[i].ci
     /\ error'[1] = "validation"
          => (bookings' = bookings /\ nextId' = nextId /\ page'[1] \in FormRoutes)]_vars

\* A zero-night submission was answered with a validation error.
C10_Witness == error[1] = "validation" /\ page[1] \in FormRoutes

\* C5: the rooms counted as occupied today are the Checked In bookings with
\* check_in <= today < check_out, on the reports page and on the dashboard.
C5_OccupiedHalfOpen ==
  LET expected == Cardinality({i \in 1..Len(pageBookings) :
                     /\ pageBookings[i].status = "Checked In"
                     /\ today \in Nights(pageBookings[i].ci, pageBookings[i].co)})
  IN /\ reportData # NoReport => reportData.occupancy.occupied_rooms = expected
     /\ stats # NoStats => stats.occupied_rooms = expected

\* C6: the calendar cell of room r and date d shows a booking only if it is
\* a booking of r with check_in <= d < check_out, shows the first such
\* booking of the list, and shows nothing when no booking of r covers d.
C6_CellHalfOpen ==
  cell # NoCell =>
    LET covering == {i \in 1..Len(pageBookings) :
                       /\ pageBookings[i].room = cell.room
                       /\ cell.date \in Nights(pageBookings[i].ci, pageBookings[i].co)}
    IN /\ cell.booking # Undefined =>
            /\ cell.booking.room = cell.room
            /\ cell.booking.ci <= cell.date
            /\ cell.date < cell.booking.co
       /\ cell.booking = Undefined <=> covering = {}
       /\ \A i \in covering :
            (\A j \in covering : i <= j) => cell.booking = pageBookings[i]

\* The cell of a booking's check-out date is rendered and shows nothing.
C6_Witness ==
  /\ cell # NoCell
  /\ cell.booking = Undefined
  /\ \E i \in 1..Len(pageBookings) :
       pageBookings[i].room = cell.room /\ pageBookings[i].co = cell.date

\* C7: for every booking, balance_due = total_amount - advance_payment -
\* collected payments, and balance_due is never negative.
C7_BalanceNonNegative ==
  acct # NoAcct =>
    /\ acct.balance_due = acct.total_amount - acct.advance_payment - acct.collected
    /\ acct.balance_due >= 0

RECURSIVE SumQuantityTimesPrice(_)
SumQuantityTimesPrice(items) ==
  IF items = <<>> THEN 0
  ELSE Head(items).quantity * Head(items).unit_price + SumQuantityTimesPrice(Tail(items))

\* C8: after any service add and remove, total_amount = room_charges +
\* additional_charges and additional_charges is the sum of quantity x
\* unit_price over the items attached; room charges 4000 with one item of
\* quantity 2 at 50 give 100 and 4100, and without items 4000.
C8_TotalsFollowItems ==
  acct # NoAcct =>
    /\ acct.total_amount = acct.room_charges + acct.additional_charges
    /\ acct.additional_charges = SumQuantityTimesPrice(acct.services)
    /\ acct.room_charges = acct.rate * acct.nights
    /\ (acct.room_charges = 4000 /\ Len(acct.services) = 1
          /\ acct.services[1].quantity = 2 /\ acct.services[1].unit_price = 50)
         => (acct.additional_charges = 100 /\ acct.total_amount = 4100)
    /\ (acct.room_charges = 4000 /\ acct.services = <<>>) => acct.total_amount = 4000

\* An item was added and removed again, and the total is back at 4000.
C8_Witness ==
  /\ acct # NoAcct
  /\ nextServiceId > 1
  /\ acct.services = <<>>
  /\ acct.total_amount = 4000

\* C9: with both dates filled and check_out after check_in, the summary of
\* either form shows nights = check_out - check_in, Total Amount = rate x
\* nights + additional_charges of the booking being edited (none on the new
\* form) and Balance Due = Total Amount - advance; rate 2000 from 2024-01-10
\* to 2024-01-12 on the new form shows 2 nights and 4000.
C9_SummaryFollowsContract ==
  (/\ formPage # "none"
   /\ formData.check_in_date # 0
   /\ formData.check_out_date > formData.check_in_date)
  =>
  LET nights == formData.check_out_date - formData.check_in_date
      total == formData.room_rate_per_night * nights + formBooking.additional_charges
  IN /\ summary.nights = nights
     /\ summary.total_amount = total
     /\ summary.balance_due = total - formData.advance_payment
     /\ (/\ formPage = "new"
         /\ formData.room_rate_per_night = 2000
         /\ formData.check_in_date = 10
         /\ formData.check_out_date = 12)
        => (summary.nights = 2 /\ summary.total_amount = 4000)

\* C11: payment_status of a booking is Paid when balance_due <= 0, Partially
\* Paid when advance_payment > 0 and balance_due > 0, and Unpaid otherwise,
\* in every state reached by creating, editing, adding and removing items
\* and collecting payments.
C11_PaymentStatusFromBalance ==
  acct # NoAcct =>
    /\ acct.balance_due <= 0 => acct.payment_status = "Paid"
    /\ (acct.advance_payment > 0 /\ acct.balance_due > 0)
         => acct.payment_status = "Partially Paid"
    /\ (acct.advance_payment <= 0 /\ acct.balance_due > 0)
         => acct.payment_status = "Unpaid"

\* A payment was collected, an item was added and the booking is over-paid.
C11_Witness ==
  /\ acct # NoAcct
  /\ payments > 0
  /\ nextServiceId > 1
  /\ acct.balance_due < 0
  /\ acct.payment_status = "Paid"

StatusMoves ==
  { <<"Confirmed", "Checked In">>, <<"Checked In", "Checked Out">>,
    <<"Confirmed", "Cancelled">>, <<"Checked In", "Cancelled">> }

\* C12: a booking's status changes only Confirmed -> Checked In -> Checked
\* Out or to Cancelled; a Checked Out or Cancelled booking never takes
\* another status (it can only be deleted); a check-in request is sent only
\* from a page showing Confirmed and a check-out request only from a page
\* showing Checked In.
C12_StatusProgression ==
  [][ /\ (bkStatus' # bkStatus /\ bkStatus' # "None")
         => <<bkStatus, bkStatus'>> \in StatusMoves
      /\ bkStatus \in {"Checked Out", "Cancelled"}
         => bkStatus' \in {bkStatus, "None"}
      /\ (sent' # sent /\ sent'.kind = "check-in")
         => shown[sent'.by] = "Confirmed"
      /\ (sent' # sent /\ sent'.kind = "check-out")
         => shown[sent'.by] = "Checked In"
    ]_vars

\* A client whose page still showed Confirmed asked to check in a booking
\* that had been cancelled meanwhile; it stayed Cancelled.
C12_Witness ==
  /\ bkStatus = "Cancelled"
  /\ sent.kind = "check-in"
  /\ ~sent.ok
  /\ shown[sent.by] = "Confirmed"

\* C13: the dashboard's Confirm Checkout is all or nothing: whenever it
\* reports a failure the booking is exactly as it was before, so no payment
\* is left on a booking that is still Checked In.
C13_CheckoutAllOrNothing ==
  [][ (selectedCheckout # NoCheckout /\ alertMsg' = "Failed to check out guest")
        => acct' = acct ]_vars

\* C14: when a mutation request has just failed, the event the page displays
\* is what it was before the user started the mutation, i.e. the stored
\* event, notes text included.
C14_FailedSaveShowsPriorState ==
  (event # NoEvent /\ evAlert # "") => event = evt

\* C18: an event's status moves only from Confirmed to Completed or to
\* Cancelled, a Completed or Cancelled event keeps its status, and an event
\* is deleted only while Cancelled.
C18_EventStatusProgression ==
  [][ /\ (evt'.status # evt.status /\ evt'.status # "None")
         => (evt.status = "Confirmed" /\ evt'.status \in {"Completed", "Cancelled"})
      /\ (evt'.status # evt.status /\ evt'.status = "None")
         => evt.status = "Cancelled"
    ]_vars

\* A Cancelled event was deleted.
C18_Witness ==
  /\ evt = NoEvent
  /\ event = NoEvent

C15_OccupancyRate ==
  /\ reportData # NoReport =>
       LET o == reportData.occupancy
       IN IF o.active_rooms = 0 THEN o.rate = ZeroRate
          ELSE /\ o.rate.den # 0
               /\ o.rate.num * o.active_rooms = o.occupied_rooms * 100 * o.rate.den
  /\ stats # NoStats =>
       IF stats.active_rooms = 0 THEN stats.occupancy_rate = ZeroRate
       ELSE /\ stats.occupancy_rate.den # 0
            /\ stats.occupancy_rate.num * stats.active_rooms
                 = stats.occupied_rooms * 100 * stats.occupancy_rate.den

\* Both pages have rendered, one without a room summary and one with the
\* one active room occupied.
C15_Witness ==
  /\ reportData # NoReport
  /\ stats # NoStats
  /\ \/ /\ reportData.occupancy.active_rooms = 0
        /\ reportData.occupancy.occupied_rooms > 0
        /\ stats.active_rooms = 1
        /\ stats.occupied_rooms = 1
     \/ /\ stats.active_rooms = 0
        /\ reportData.occupancy.active_rooms = 1
        /\ reportData.occupancy.occupied_rooms = 1

\* C16: the displayed profit is the displayed total revenue minus the
\* displayed total expenses; hotel-only takes hotel revenue and operating
\* expenses, events-only event revenue and vendor cost, both the sums; and
\* for the window shown profit(both) = profit(hotel) + profit(events).
C16_ProfitByFilter ==
  reportData # NoReport =>
    LET f == shownFor.from
        t == shownFor.to
        hotel == RevenueSummary(server, f, t).total_revenue
        operating == ExpensesSummary(server, f, t).total_amount
        evRevenue == EventsSummary(server, f, t).total_revenue
        evCost == EventsSummary(server, f, t).total_expenses
        P(type) == ReportFor(server, type, f, t, today).profit
    IN /\ reportData.profit = reportData.revenue.total - reportData.expenses.total
       /\ shownFor.type = "hotel" =>
            (reportData.revenue.total = hotel /\ reportData.expenses.total = operating)
       /\ shownFor.type = "events" =>
            (reportData.revenue.total = evRevenue /\ reportData.expenses.total = evCost)
       /\ shownFor.type = "both" =>
            /\ reportData.revenue.total = hotel + evRevenue
            /\ reportData.expenses.total = operating + evCost
       /\ P("both") = P("hotel") + P("events")

\* The filter 'both' is shown for a window with hotel and event revenue and
\* both kinds of expenses.
C16_Witness ==
  /\ reportData # NoReport
  /\ shownFor.type = "both"
  /\ shownFor.from = today
  /\ reportData.revenue.total = 14000
  /\ reportData.expenses.total = 6500
  /\ reportData.profit = 7500

C21_OneRequestPerBooking ==
  \A c \in DOMAIN listCalls : listCalls[c] <= 1 /\ dashCalls[c] <= 1

\* C22: a calendar cell never shows a Cancelled booking; a cell covered only
\* by Cancelled bookings shows none, and a cell covered also by a
\* non-cancelled booking shows a non-cancelled one.
C22_CancelledNeverInCell ==
  cell # NoCell => cell.booking.status # "Cancelled"

\* C23: every booking request a form sends names a room whose status is
\* Active.
C23_OnlyActiveRoomsChosen ==
  sentRoom # 0 => roomStatus[sentRoom] = "Active"

\* No two bookings of the fetched list that are not Cancelled share a night
\* of one room.
NoOverlapFetched ==
  \A i, j \in 1..Len(pageBookings) :
    (/\ i # j
     /\ pageBookings[i].status # "Cancelled"
     /\ pageBookings[j].status # "Cancelled"
     /\ pageBookings[i].room = pageBookings[j].room)
      => ~SharesNight(pageBookings[i], pageBookings[j])

\* C24: when no room has two overlapping non-cancelled bookings and the
\* booked room is active, both pages show occupied_rooms <= active_rooms
\* and 0 <= occupancy_rate <= 100, and the reports page shows
\* available_rooms = active_rooms - occupied_rooms >= 0.
C24_OccupancyConsistent ==
  NoOverlapFetched =>
    /\ (reportData # NoReport /\ reportData.occupancy.active_rooms >= 1) =>
         LET o == reportData.occupancy
         IN /\ o.occupied_rooms <= o.active_rooms
            /\ o.available_rooms = o.active_rooms - o.occupied_rooms
            /\ o.available_rooms >= 0
            /\ o.rate.num >= 0
            /\ o.rate.num <= 100 * o.rate.den
    /\ (stats # NoStats /\ stats.active_rooms >= 1) =>
         /\ stats.occupied_rooms <= stats.active_rooms
         /\ stats.occupancy_rate.num >= 0
         /\ stats.occupancy_rate.num <= 100 * stats.occupancy_rate.den

\* C25: every add-item request carries a non-blank service name, a
\* quantity >= 1 and a unit_price >= 0.
C25_ItemRequestValid ==
  itemSent # NoItemRequest =>
    /\ Trim(itemSent.service_name) # ""
    /\ itemSent.quantity >= 1
    /\ itemSent.unit_price >= 0

\* C26: the Financial Summary shown when the new-event form is submitted
\* equals the sums over the services of the submitted request.
C26_SummaryOfSubmittedServices ==
  eventRequest # NoEventRequest =>
    /\ eventRequest.totals.totalCustomerPrice
         = SumField(eventRequest.services, "customer_price")
    /\ eventRequest.totals.totalVendorCost
         = SumField(eventRequest.services, "vendor_cost")
    /\ eventRequest.totals.profit
         = SumField(eventRequest.services, "customer_price")
             - SumField(eventRequest.services, "vendor_cost")

\* C27: the dashboard's monthly revenue and monthly expenses are both those
\* of the window from the first day of the current month through the day
\* of loading, so Net Profit is revenue minus expenses of that window.
C27_MonthlyFiguresOneWindow ==
  monthly # NoMonthly =>
    /\ monthly.monthly_revenue = MonthRevenue(FirstOfMonth, clock.day)
    /\ monthly.monthly_expenses = MonthExpenses(FirstOfMonth, clock.day)

\* C28: the 'Failed to update advance payment' alert appears only after an
\* update request carrying the amount was sent and failed.
C28_AlertOnlyAfterFailedRequest ==
  alertMsg = "Failed to update advance payment" => advanceSent # NoPut

\* C29: on every page a busy flag that is set is eventually back at idle,
\* whether the request succeeded, was answered with an error or threw.
C29_BusyFlagReturnsToIdle ==
  \A p \in Pages : (flag[p] = "busy") ~> (flag[p] = "idle")

\* A request of the booking detail page threw and the page is idle again.
C29_Witness ==
  /\ lastOutcome = [page |-> "detail", outcome |-> "throws"]
  /\ flag["detail"] = "idle"
  /\ RunsOf("detail") = 0

\* C30: the calendar shows 14 consecutive days starting at currentDate;
\* 'next' moves the start forward by exactly 14 days and 'prev' back by
\* exactly 14 days, and 'next' followed by 'prev' returns to the same window.
C30_WindowsAdjoin ==
  /\ Len(calendarDays) = 14
  /\ \A k \in 1..Len(calendarDays) :
       DayNumber(calendarDays[k]) = DayNumber(currentDate) + (k - 1)
  /\ Len(starts) >= 1 =>
       LET before == starts[Len(starts)]
           direction == directions[Len(directions)]
       IN DayNumber(currentDate) - DayNumber(before)
            = (IF direction = "next" THEN 14 ELSE 0 - 14)
  /\ (Len(starts) = 2 /\ directions = <<"next", "prev">>) => currentDate = starts[1]

\* 'next' then 'prev' were pressed on a window that runs over the end of a
\* month.
C30_Witness ==
  /\ directions = <<"next", "prev">>
  /\ calendarDays[1].month # calendarDays[14].month

====
